---- MODULE Spec2Model ----
(***************************************************************************)
(* git-all: the parallel execution engine (runner.rs of the rust and       *)
(* fit-rust crates), the command-line assembly of GitCommand and the       *)
(* output classifiers (commands/*.rs).                                     *)
(*                                                                         *)
(* Spec / FairSpec   the engine: run_parallel (rust), run_parallel         *)
(*                   (fit-rust) and run_passthrough (rust)                 *)
(* CmdSpec           GitCommand: the build_command closures, spawn and     *)
(*                   command_string_with_scheme                            *)
(* FmtSpec           the OutputFormatter implementations on texts          *)
(* ColSpec           compute_name_width and format_column of the table     *)
(* MainSpec          fn main of git-all and fit around the engine          *)
(***************************************************************************)
EXTENDS Integers, Sequences, FiniteSets, TLC

\* ------------------------------------------------------------------ bounds
\* the largest number of arguments the user gives after the subcommand
MaxExtraArgs == 2
\* the largest number of lines of a classified stdout or stderr
MaxLines == 2
\* the largest number of discovered repositories of a run
MaxRepos == 3
\* the largest value of the -n/--workers option (0 = unlimited)
MaxConnections == 2
\* the largest number of characters of a value put into a column
MaxValueLen == 4
\* the largest column width tried besides the widths the engine uses
MaxWidth == 5

\* ------------------------------------------------------- the engine's state
VARIABLES
    engine,         \* which engine function runs
    dry_run,        \* ExecutionContext.dry_run
    max_connections,\* ExecutionContext.max_connections
    repos,          \* the sorted repository list handed to the engine
    env,            \* what git does in each repository during this run
    phase,          \* position of the calling thread in the engine function
    spawned,        \* number of worker threads started by the spawn loop
    semaphore,      \* TRUE iff `semaphore` is Some(..)
    count,          \* Semaphore.count, the available permits
    wpc,            \* position of each worker thread in its closure
    wbranch,        \* each worker's local `branch` (resolve_branch result)
    wresult,        \* each worker's local `result`
    chan,           \* the mpsc channel: messages sent and not yet received
    results,        \* the slot vector `results`
    next_to_print,  \* the emit cursor
    cpc,            \* position of the collection loop: "recv" or "drain"
    out,            \* everything written so far, in order
    launches,       \* per target: number of cmd.spawn calls made
    \* ---- command assembly (GitCommand)
    command,        \* which subcommand module builds the descriptor
    extra_args,     \* the arguments the user gave after the subcommand
    repo_path,      \* the target directory
    url_scheme,     \* ExecutionContext.url_scheme: "None", "Ssh" or "Https"
    cmd,            \* the GitCommand built by the module's build_command closure
    cmdpc,          \* "idle", "input", "built" or "bailed"
    argv,           \* the arguments GitCommand::spawn hands to the OS (after "git")
    line,           \* what command_string_with_scheme returns
    cmderr,         \* the error the subcommand's run returned before the engine, if any
    \* ---- output classification (OutputFormatter::format)
    formatter,      \* which classifier is applied
    output,         \* the process Output: exit success, stdout, stderr
    fr,             \* the result of format
    fmtpc,          \* "idle", "input" or "formatted"
    tally,          \* the status classifier's counters, branch, ahead and behind
    scanned,        \* number of stdout lines the status classifier's loop has done
    \* ---- the columns of the table (compute_name_width, format_column)
    names,          \* the display names of the targets
    name_width,     \* what compute_name_width returns, -1 before it has
    value,          \* the value put into a column
    width,          \* the width of that column
    column,         \* what format_column returns
    colpc,          \* "idle"; "names" then "width"; "column" then "formatted"
    \* ---- the program around the engine (fn main)
    program,        \* which binary runs: "git-all" or "fit"
    mainpc,         \* position of main
    cli_command,    \* cli.command: "None", "Meta", "Pull", "Fetch", "Status", "External"
    found,          \* number of repositories discovery returned, -1 before it has
    exit_code,      \* the exit status of the process, -1 while it runs
    mainout,        \* the lines main itself has printed to stdout
    meta_args,      \* the `args` of Commands::Meta
    mainerr,        \* the lines main itself has printed to stderr
    ext_args,       \* the `args` of Commands::External
    alias_output,   \* the Output of `git config --get alias.<name>`
    routed          \* the run function the match selected, and the args handed to it

\* the configuration of one engine call: read-only during the run
cfgVars == <<engine, dry_run, max_connections, repos, env>>

engineVars ==
    <<cfgVars, phase, spawned, semaphore, count, wpc, wbranch, wresult, chan,
      results, next_to_print, cpc, out, launches>>

cmdVars == <<command, extra_args, repo_path, url_scheme, cmd, cmdpc, argv, line, cmderr>>

colVars == <<names, name_width, value, width, column, colpc>>

fmtVars == <<formatter, output, fr, fmtpc, tally, scanned, colVars>>

mainVars ==
    <<program, mainpc, cli_command, found, exit_code, mainout, meta_args, mainerr,
      ext_args, alias_output, routed>>

vars == <<engineVars, cmdVars, fmtVars, mainVars>>

\* --------------------------------------------------------------- constants
Engines == {"run_parallel", "fit_run_parallel", "run_passthrough"}

\* repository paths as discovery returns them: sorted, distinct
RepoNames == <<"r0", "r1", "r2", "r3", "r4", "r5">>

None == "None"

\* Result<Output, io::Error> of spawn().and_then(wait_with_output):
\* a launch failure, or an Output with exit status zero / non-zero
LaunchErr == "Err"

Targets == 0 .. (Len(repos) - 1)
AllIdx == 0 .. (MaxRepos - 1)

\* repos[idx] of the 0-based Rust slice
Repo(idx) == repos[idx + 1]

\* What the subprocesses of one target do: whether cmd.spawn starts the child,
\* the Result of spawn().and_then(wait_with_output), and what resolve_branch
\* returns ("unknown" when git rev-parse fails, "HEAD (detached)" for HEAD)
Outcomes ==
    << [launch |-> TRUE,  result |-> "OkExit0", branch |-> "main"],
       [launch |-> FALSE, result |-> LaunchErr, branch |-> "unknown"],
       [launch |-> TRUE,  result |-> "OkExit1", branch |-> "HEAD (detached)"],
       [launch |-> TRUE,  result |-> LaunchErr, branch |-> "main"] >>

\* The environments of a run: every target behaves alike (stride 0), or the
\* targets run through the outcomes in turn from some first one (stride 1)
Environments ==
    { [i \in AllIdx |-> Outcomes[((shift + stride * i) % Len(Outcomes)) + 1]] :
        shift \in 0 .. (Len(Outcomes) - 1), stride \in {0, 1} }

\* whether this engine resolves the branch before the command (rust run_parallel)
ResolvesBranch == engine = "run_parallel"

\* whether the drain loop take()s the slot it prints (rust) or borrows it (fit-rust)
TakesSlot == engine \in {"run_parallel", "run_passthrough"}

\* faulty variant, for comparison: a limiter whenever a worker count is given
LimiterActiveIgnoringTargetCount == max_connections > 0

\* `max_workers > 0 && max_workers < repos.len()`
LimiterActive == max_connections > 0 /\ max_connections < Len(repos)

\* a slot of `results`: None, or Some((repo, branch, result))
EmptySlot == [filled |-> FALSE, repo |-> None, branch |-> None, result |-> None]

FilledSlot(m) == [filled |-> TRUE, repo |-> m.repo, branch |-> m.branch,
                  result |-> m.result]

\* the formatter handed to run_parallel, on the two kinds of Output of a run:
\* a FormattedResult whose branch is empty on a non-zero exit
Format(result) ==
    IF result = "OkExit0"
    THEN [branch |-> "parsed", message |-> "formatted exit 0"]
    ELSE [branch |-> "", message |-> "formatted exit 1"]

\* ---------------------------------------------------------------- Init
\* no command is being assembled
NoCommand == [repo_path |-> <<>>, global_args |-> <<>>, args |-> <<>>]

CmdIdle ==
    /\ command = None
    /\ extra_args = <<>>
    /\ repo_path = <<>>
    /\ url_scheme = None
    /\ cmd = NoCommand
    /\ cmdpc = "idle"
    /\ argv = <<>>
    /\ line = <<>>
    /\ cmderr = None

\* no output is being classified
FmtIdle ==
    /\ formatter = None
    /\ output = [success |-> TRUE, stdout |-> <<>>, stderr |-> <<>>]
    /\ fr = [panicked |-> FALSE, branch |-> <<>>, message |-> <<>>]
    /\ fmtpc = "idle"
    /\ tally = [panicked |-> FALSE, branch |-> <<>>, ahead |-> 0, behind |-> 0,
                modified |-> 0, added |-> 0, deleted |-> 0, untracked |-> 0,
                renamed |-> 0]
    /\ scanned = 0

\* no column is being laid out
ColIdle ==
    /\ names = <<>>
    /\ name_width = -1
    /\ value = <<>>
    /\ width = 0
    /\ column = <<>>
    /\ colpc = "idle"

\* main is not running: the engine function is called on its own
MainIdle ==
    /\ program = "git-all"
    /\ mainpc = "idle"
    /\ cli_command = None
    /\ found = -1
    /\ exit_code = -1
    /\ mainout = <<>>
    /\ meta_args = <<>>
    /\ mainerr = <<>>
    /\ ext_args = <<>>
    /\ alias_output = [success |-> FALSE, utf8 |-> TRUE, stdout |-> <<>>]
    /\ routed = [command |-> None, args |-> <<>>]

Init ==
    /\ CmdIdle
    /\ FmtIdle
    /\ ColIdle
    /\ MainIdle
    /\ engine \in Engines
    /\ dry_run \in BOOLEAN
    /\ max_connections \in 0 .. MaxConnections
    /\ repos \in {SubSeq(RepoNames, 1, n) : n \in 0 .. MaxRepos}
    /\ env \in Environments
    /\ phase = "entry"
    /\ spawned = 0
    /\ semaphore = FALSE
    /\ count = 0
    /\ wpc = [i \in AllIdx |-> "unspawned"]
    /\ wbranch = [i \in AllIdx |-> None]
    /\ wresult = [i \in AllIdx |-> None]
    /\ chan = <<>>
    /\ results = <<>>
    /\ next_to_print = 0
    /\ cpc = "recv"
    /\ out = <<>>
    /\ launches = [i \in AllIdx |-> 0]

\* ----------------------------------------------------------- dry run
\* `if ctx.is_dry_run() { for repo in repos { println!(command_string) } return Ok(()) }`
BeginDryRun ==
    /\ phase = "entry"
    /\ dry_run
    /\ phase' = "dry"
    /\ UNCHANGED <<cfgVars, cmdVars, fmtVars, mainVars, spawned, semaphore, count,
                   wpc, wbranch, wresult, chan, results, next_to_print, cpc, out, launches>>

DryRunPrint ==
    /\ phase = "dry"
    /\ Len(out) < Len(repos)
    /\ out' = Append(out, [stream |-> "stdout", kind |-> "command",
                           repo |-> repos[Len(out) + 1]])
    /\ UNCHANGED <<cfgVars, cmdVars, fmtVars, mainVars, phase, spawned, semaphore,
                   count, wpc, wbranch, wresult, chan, results, next_to_print, cpc,
                   launches>>

DryRunReturn ==
    /\ phase = "dry"
    /\ Len(out) = Len(repos)
    /\ phase' = "returned"
    /\ UNCHANGED <<cfgVars, cmdVars, fmtVars, mainVars, spawned, semaphore, count,
                   wpc, wbranch, wresult, chan, results, next_to_print, cpc, out, launches>>

\* ----------------------------------------------------------- live run: setup
\* faulty variant, for comparison: the engine does not look at the dry-run flag
BeginLiveIgnoringDryRun ==
    /\ phase = "entry"
    /\ semaphore' = LimiterActive
    /\ count' = IF LimiterActive THEN max_connections ELSE 0
    /\ results' = [i \in Targets |-> EmptySlot]
    /\ next_to_print' = 0
    /\ phase' = "spawn"
    /\ UNCHANGED <<cfgVars, cmdVars, fmtVars, mainVars, spawned, wpc, wbranch,
                   wresult, chan, cpc, out, launches>>

\* semaphore creation, channel creation, `results` and `next_to_print`
BeginLive ==
    /\ phase = "entry"
    /\ ~dry_run
    /\ semaphore' = LimiterActive
    /\ count' = IF LimiterActive THEN max_connections ELSE 0
    /\ results' = [i \in Targets |-> EmptySlot]
    /\ next_to_print' = 0
    /\ phase' = "spawn"
    /\ UNCHANGED <<cfgVars, cmdVars, fmtVars, mainVars, spawned, wpc, wbranch,
                   wresult, chan, cpc, out, launches>>

\* one iteration of `for (idx, repo) in repos.iter().enumerate() { s.spawn(..) }`
SpawnWorker ==
    /\ phase = "spawn"
    /\ spawned < Len(repos)
    /\ wpc' = [wpc EXCEPT ![spawned] = "acquire"]
    /\ spawned' = spawned + 1
    /\ UNCHANGED <<cfgVars, cmdVars, fmtVars, mainVars, phase, semaphore, count,
                   wbranch, wresult, chan, results, next_to_print, cpc, out, launches>>

\* `drop(tx)`: from here on the channel closes when the last worker is done
DropTx ==
    /\ phase = "spawn"
    /\ spawned = Len(repos)
    /\ phase' = "collect"
    /\ UNCHANGED <<cfgVars, cmdVars, fmtVars, mainVars, spawned, semaphore, count,
                   wpc, wbranch, wresult, chan, results, next_to_print, cpc, out, launches>>

\* ----------------------------------------------------------- Semaphore
\* faulty variant, for comparison: acquire takes a permit without looking at the count
AcquireNeverWaits(c) == FALSE

\* `while *count == 0 { count = self.cond.wait(count) }`
AcquireMustWait(c) == c = 0

\* faulty variant, for comparison: release returns the permit and notifies nobody
NotifyNobody(waiters) == {{}}

\* Condvar::notify_one: the sets of waiters it may wake (one of them, if any)
NotifyOne(waiters) ==
    IF waiters = {} THEN {{}} ELSE {{v} : v \in waiters}

Waiters == {v \in Targets : wpc[v] = "waiting"}

\* where a worker continues once it holds its permit (or has no limiter)
AfterAcquire == IF ResolvesBranch THEN "resolve" ELSE "launch"

\* Semaphore::acquire entered from position `from`: under the mutex, wait on the
\* condition variable when no permit is left, else take one
SemAcquire(w, from) ==
    /\ wpc[w] = from
    /\ semaphore
    /\ IF AcquireMustWait(count)
       THEN /\ wpc' = [wpc EXCEPT ![w] = "waiting"]
            /\ count' = count
       ELSE /\ wpc' = [wpc EXCEPT ![w] = AfterAcquire]
            /\ count' = count - 1

\* ----------------------------------------------------------- worker closure
\* `if let Some(ref sem) = sem { sem.acquire(); }`
Acquire(w) ==
    /\ \/ SemAcquire(w, "acquire")
       \/ /\ wpc[w] = "acquire"
          /\ ~semaphore
          /\ wpc' = [wpc EXCEPT ![w] = AfterAcquire]
          /\ count' = count
    /\ UNCHANGED <<cfgVars, cmdVars, fmtVars, mainVars, phase, spawned, semaphore, wbranch, wresult, chan,
                   results, next_to_print, cpc, out, launches>>

\* a waiter that was notified (or woke spuriously) re-takes the mutex and
\* re-evaluates the loop condition of acquire
Reacquire(w) ==
    /\ SemAcquire(w, "woken")
    /\ UNCHANGED <<cfgVars, cmdVars, fmtVars, mainVars, phase, spawned, semaphore, wbranch, wresult, chan,
                   results, next_to_print, cpc, out, launches>>

\* Condvar::wait may return without a notification
SpuriousWake(w) ==
    /\ wpc[w] = "waiting"
    /\ wpc' = [wpc EXCEPT ![w] = "woken"]
    /\ UNCHANGED <<cfgVars, cmdVars, fmtVars, mainVars, phase, spawned, semaphore, count, wbranch, wresult, chan,
                   results, next_to_print, cpc, out, launches>>

\* `let branch = resolve_branch(&repo);` (rust run_parallel only)
ResolveBranch(w) ==
    /\ wpc[w] = "resolve"
    /\ wbranch' = [wbranch EXCEPT ![w] = env[w].branch]
    /\ wpc' = [wpc EXCEPT ![w] = "launch"]
    /\ UNCHANGED <<cfgVars, cmdVars, fmtVars, mainVars, phase, spawned, semaphore, count, wresult, chan,
                   results, next_to_print, cpc, out, launches>>

\* faulty variant, for comparison: a failed launch ends the worker thread at once
LaunchEndsThreadOnFailure(w) ==
    /\ wpc[w] = "launch"
    /\ launches' = [launches EXCEPT ![w] = @ + 1]
    /\ wpc' = [wpc EXCEPT ![w] = IF env[w].launch THEN "running" ELSE "done"]
    /\ UNCHANGED <<cfgVars, cmdVars, fmtVars, mainVars, phase, spawned, semaphore, count, wbranch,
                   wresult, chan, results, next_to_print, cpc, out>>

\* faulty variant, for comparison: after a failed launch the permit is not given back
LaunchSkipsReleaseOnFailure(w) ==
    /\ wpc[w] = "launch"
    /\ launches' = [launches EXCEPT ![w] = @ + 1]
    /\ IF env[w].launch
       THEN /\ wpc' = [wpc EXCEPT ![w] = "running"]
            /\ wresult' = wresult
       ELSE /\ wpc' = [wpc EXCEPT ![w] = "send"]
            /\ wresult' = [wresult EXCEPT ![w] = LaunchErr]
    /\ UNCHANGED <<cfgVars, cmdVars, fmtVars, mainVars, phase, spawned, semaphore, count, wbranch, chan,
                   results, next_to_print, cpc, out>>

\* `cmd.spawn(url_scheme)`: the child starts, or the launch fails and and_then
\* passes the error on
Launch(w) ==
    /\ wpc[w] = "launch"
    /\ launches' = [launches EXCEPT ![w] = @ + 1]
    /\ IF env[w].launch
       THEN /\ wpc' = [wpc EXCEPT ![w] = "running"]
            /\ wresult' = wresult
       ELSE /\ wpc' = [wpc EXCEPT ![w] = "release"]
            /\ wresult' = [wresult EXCEPT ![w] = LaunchErr]
    /\ UNCHANGED <<cfgVars, cmdVars, fmtVars, mainVars, phase, spawned, semaphore, count, wbranch, chan,
                   results, next_to_print, cpc, out>>

\* faulty variant, for comparison: every worker reports the first target's Output
WaitOutputOfFirst(w) ==
    /\ wpc[w] = "running"
    /\ wresult' = [wresult EXCEPT ![w] = env[0].result]
    /\ wpc' = [wpc EXCEPT ![w] = "release"]
    /\ UNCHANGED <<cfgVars, cmdVars, fmtVars, mainVars, phase, spawned, semaphore, count, wbranch, chan,
                   results, next_to_print, cpc, out, launches>>

\* `c.wait_with_output()`: the subprocess ends
WaitOutput(w) ==
    /\ wpc[w] = "running"
    /\ wresult' = [wresult EXCEPT ![w] = env[w].result]
    /\ wpc' = [wpc EXCEPT ![w] = "release"]
    /\ UNCHANGED <<cfgVars, cmdVars, fmtVars, mainVars, phase, spawned, semaphore, count, wbranch, chan,
                   results, next_to_print, cpc, out, launches>>

\* `if let Some(ref sem) = sem { sem.release(); }`
Release(w) ==
    /\ wpc[w] = "release"
    /\ IF semaphore
       THEN /\ count' = count + 1
            /\ \E woken \in NotifyOne(Waiters) :
                   wpc' = [v \in AllIdx |->
                              IF v = w THEN "send"
                              ELSE IF v \in woken THEN "woken" ELSE wpc[v]]
       ELSE /\ count' = count
            /\ wpc' = [wpc EXCEPT ![w] = "send"]
    /\ UNCHANGED <<cfgVars, cmdVars, fmtVars, mainVars, phase, spawned, semaphore, wbranch, wresult, chan,
                   results, next_to_print, cpc, out, launches>>

\* faulty variant, for comparison: a bounded channel of capacity 1, whose send waits for room
SendWaitsForRoom(w) == Len(chan) < 1

\* whether `tx.send(..)` can complete now: an mpsc::channel() is unbounded
SendReady(w) == TRUE

\* faulty variant, for comparison: the worker also stores its result in the slot
SendStoringResult(w) ==
    /\ wpc[w] = "send"
    /\ SendReady(w)
    /\ chan' = Append(chan, [idx |-> w, repo |-> Repo(w), branch |-> wbranch[w],
                             result |-> wresult[w]])
    /\ results' = [results EXCEPT ![w] = [filled |-> TRUE, repo |-> Repo(w),
                                          branch |-> wbranch[w], result |-> wresult[w]]]
    /\ wpc' = [wpc EXCEPT ![w] = "done"]
    /\ UNCHANGED <<cfgVars, cmdVars, fmtVars, mainVars, phase, spawned, semaphore, count, wbranch, wresult,
                   next_to_print, cpc, out, launches>>

\* faulty variant, for comparison: every message carries the index of the first target
SendIndexOfFirst(w) ==
    /\ wpc[w] = "send"
    /\ SendReady(w)
    /\ chan' = Append(chan, [idx |-> 0, repo |-> Repo(w), branch |-> wbranch[w],
                             result |-> wresult[w]])
    /\ wpc' = [wpc EXCEPT ![w] = "done"]
    /\ UNCHANGED <<cfgVars, cmdVars, fmtVars, mainVars, phase, spawned, semaphore, count, wbranch, wresult,
                   results, next_to_print, cpc, out, launches>>

\* `let _ = tx.send((idx, repo, branch, result));` and the end of the thread,
\* which drops its clone of tx
Send(w) ==
    /\ wpc[w] = "send"
    /\ SendReady(w)
    /\ chan' = Append(chan, [idx |-> w, repo |-> Repo(w), branch |-> wbranch[w],
                             result |-> wresult[w]])
    /\ wpc' = [wpc EXCEPT ![w] = "done"]
    /\ UNCHANGED <<cfgVars, cmdVars, fmtVars, mainVars, phase, spawned, semaphore, count, wbranch, wresult,
                   results, next_to_print, cpc, out, launches>>

WorkerStep(w) ==
    \/ Acquire(w)
    \/ Reacquire(w)
    \/ ResolveBranch(w)
    \/ Launch(w)
    \/ WaitOutput(w)
    \/ Release(w)
    \/ Send(w)

\* ----------------------------------------------------------- collection loop
\* faulty variant, for comparison: an arriving result is stored at the cursor
RecvAtCursor ==
    /\ phase = "collect"
    /\ cpc = "recv"
    /\ chan # <<>>
    /\ results' = [results EXCEPT ![next_to_print] = FilledSlot(Head(chan))]
    /\ chan' = Tail(chan)
    /\ cpc' = "drain"
    /\ UNCHANGED <<cfgVars, cmdVars, fmtVars, mainVars, phase, spawned, semaphore, count, wpc, wbranch, wresult,
                   next_to_print, out, launches>>

\* `for (idx, repo, branch, result) in rx { results[idx] = Some(..);`
Recv ==
    /\ phase = "collect"
    /\ cpc = "recv"
    /\ chan # <<>>
    /\ results' = [results EXCEPT ![Head(chan).idx] = FilledSlot(Head(chan))]
    /\ chan' = Tail(chan)
    /\ cpc' = "drain"
    /\ UNCHANGED <<cfgVars, cmdVars, fmtVars, mainVars, phase, spawned, semaphore, count, wpc, wbranch, wresult,
                   next_to_print, out, launches>>

\* faulty variant, for comparison: the drain loop does not test the slot at the cursor
DrainWithoutSlotTest == next_to_print < Cardinality(DOMAIN results)

\* `while next_to_print < results.len() && results[next_to_print].is_some()`
DrainCondition ==
    /\ next_to_print < Cardinality(DOMAIN results)
    /\ results[next_to_print].filled

\* faulty variant, for comparison: every slot goes through the classifier
PrintedThroughClassifier(slot) ==
    <<[stream |-> "stdout", kind |-> "line", repo |-> slot.repo,
       branch |-> slot.branch, message |-> Format(slot.result).message]>>

\* faulty variant, for comparison: run_passthrough forwards the captured stdout only
PrintedWithoutStderr(slot) ==
    IF slot.result = LaunchErr
    THEN <<[stream |-> IF engine = "run_passthrough" THEN "stderr" ELSE "stdout",
            kind |-> IF engine = "run_passthrough" THEN "failed to run git" ELSE "line",
            repo |-> slot.repo,
            branch |-> IF engine = "run_parallel" THEN slot.branch ELSE None,
            message |-> IF engine = "run_passthrough" THEN "io error" ELSE "ERROR: io error"]>>
    ELSE IF engine = "run_passthrough"
    THEN <<[stream |-> "stdout", kind |-> "bytes", repo |-> slot.repo,
            branch |-> None, message |-> slot.result]>>
    ELSE <<[stream |-> "stdout", kind |-> "line", repo |-> slot.repo,
            branch |-> IF engine = "fit_run_parallel" THEN None
                       ELSE IF Format(slot.result).branch = "" THEN slot.branch
                       ELSE Format(slot.result).branch,
            message |-> Format(slot.result).message]>>

\* faulty variant, for comparison: the branch column always shows the resolved branch
PrintedWithResolvedBranch(slot) ==
    IF slot.result = LaunchErr
    THEN <<[stream |-> "stdout", kind |-> "line", repo |-> slot.repo,
            branch |-> IF engine = "run_parallel" THEN slot.branch ELSE None,
            message |-> "ERROR: io error"]>>
    ELSE <<[stream |-> "stdout", kind |-> "line", repo |-> slot.repo,
            branch |-> IF engine = "run_parallel" THEN slot.branch ELSE None,
            message |-> Format(slot.result).message]>>

\* what the body of the drain loop writes for the slot at the cursor:
\* run_parallel (rust): one line `name | branch | message`
\* run_parallel (fit-rust): print_result, one line `[name] message`
\* run_passthrough: the captured stdout then stderr bytes, or one error line
Printed(slot) ==
    CASE engine = "run_parallel" ->
           IF slot.result = LaunchErr
           THEN <<[stream |-> "stdout", kind |-> "line", repo |-> slot.repo,
                   branch |-> slot.branch, message |-> "ERROR: io error"]>>
           ELSE <<[stream |-> "stdout", kind |-> "line", repo |-> slot.repo,
                   branch |-> IF Format(slot.result).branch = ""
                              THEN slot.branch
                              ELSE Format(slot.result).branch,
                   message |-> Format(slot.result).message]>>
      [] engine = "fit_run_parallel" ->
           IF slot.result = LaunchErr
           THEN <<[stream |-> "stdout", kind |-> "line", repo |-> slot.repo,
                   branch |-> None, message |-> "ERROR: io error"]>>
           ELSE <<[stream |-> "stdout", kind |-> "line", repo |-> slot.repo,
                   branch |-> None, message |-> Format(slot.result).message]>>
      [] engine = "run_passthrough" ->
           IF slot.result = LaunchErr
           THEN <<[stream |-> "stderr", kind |-> "failed to run git", repo |-> slot.repo,
                   branch |-> None, message |-> "io error"]>>
           ELSE <<[stream |-> "stdout", kind |-> "bytes", repo |-> slot.repo,
                   branch |-> None, message |-> slot.result],
                  [stream |-> "stderr", kind |-> "bytes", repo |-> slot.repo,
                   branch |-> None, message |-> slot.result]>>

\* faulty variant, for comparison: the drain loop prints and does not advance
EmitWithoutAdvance ==
    /\ phase = "collect"
    /\ cpc = "drain"
    /\ DrainCondition
    /\ out' = out \o Printed(results[next_to_print])
    /\ UNCHANGED <<cfgVars, cmdVars, fmtVars, mainVars, phase, spawned, semaphore, count, wpc, wbranch, wresult,
                   chan, cpc, launches, results, next_to_print>>

\* one iteration of the drain loop: print the slot at the cursor, advance
Emit ==
    /\ phase = "collect"
    /\ cpc = "drain"
    /\ DrainCondition
    /\ out' = out \o Printed(results[next_to_print])
    /\ results' = IF TakesSlot
                  THEN [results EXCEPT ![next_to_print] = EmptySlot]
                  ELSE results
    /\ next_to_print' = next_to_print + 1
    /\ UNCHANGED <<cfgVars, cmdVars, fmtVars, mainVars, phase, spawned, semaphore, count, wpc, wbranch, wresult,
                   chan, cpc, launches>>

\* faulty variant, for comparison: the drain loop may end while the cursor's slot is filled
DrainEndAtAnyTime ==
    /\ phase = "collect"
    /\ cpc = "drain"
    /\ cpc' = "recv"
    /\ UNCHANGED <<cfgVars, cmdVars, fmtVars, mainVars, phase, spawned, semaphore, count, wpc, wbranch, wresult,
                   chan, results, next_to_print, out, launches>>

\* the drain loop's condition is false: back to waiting on the channel
DrainEnd ==
    /\ phase = "collect"
    /\ cpc = "drain"
    /\ ~DrainCondition
    /\ cpc' = "recv"
    /\ UNCHANGED <<cfgVars, cmdVars, fmtVars, mainVars, phase, spawned, semaphore, count, wpc, wbranch, wresult,
                   chan, results, next_to_print, out, launches>>

\* faulty variant, for comparison: the channel counts as closed as soon as the main tx is dropped
ClosedByMainDrop == phase = "collect"

\* the channel is closed: the main tx is dropped and every worker has ended
ChannelClosed ==
    /\ phase = "collect"
    /\ \A w \in Targets : wpc[w] = "done"

\* `rx` yields None once the channel is closed and empty: the loop ends, the
\* scope joins the (finished) workers, and the function returns Ok(())
Return ==
    /\ phase = "collect"
    /\ cpc = "recv"
    /\ chan = <<>>
    /\ ChannelClosed
    /\ phase' = "returned"
    /\ UNCHANGED <<cfgVars, cmdVars, fmtVars, mainVars, spawned, semaphore, count, wpc, wbranch, wresult,
                   chan, results, next_to_print, cpc, out, launches>>

\* ----------------------------------------------------------- specification
Next ==
    \/ BeginDryRun
    \/ DryRunPrint
    \/ DryRunReturn
    \/ BeginLive
    \/ SpawnWorker
    \/ DropTx
    \/ \E w \in Targets : WorkerStep(w)
    \/ \E w \in Targets : SpuriousWake(w)
    \/ Recv
    \/ Emit
    \/ DrainEnd
    \/ Return

Spec == Init /\ [][Next]_vars

\* the steps of the calling thread
MainStep ==
    \/ BeginDryRun \/ DryRunPrint \/ DryRunReturn
    \/ BeginLive \/ SpawnWorker \/ DropTx
    \/ Recv \/ Emit \/ DrainEnd \/ Return

\* The fair runs are checked in the environment in which the targets take the
\* outcomes in turn (a clean exit, a failed launch, a non-zero exit, a failed
\* wait): scheduling does not depend on what git prints.
FairInit ==
    /\ Init
    /\ env = [i \in AllIdx |-> Outcomes[(i % Len(Outcomes)) + 1]]

\* every thread that can take a step eventually takes it, and every subprocess
\* ends; a spurious wake-up is never owed
FairSpec ==
    /\ FairInit
    /\ [][Next]_vars
    /\ \A w \in AllIdx : WF_vars(WorkerStep(w))
    /\ WF_vars(MainStep)

\* ======================================================================
\* GitCommand: building, spawning and printing one command
\* ======================================================================
\* A command-line string is a sequence of pieces: a piece is a blank (" "), a
\* double quote or a run of other characters.
\* slice::join(" ")
RECURSIVE Join(_)
Join(strs) ==
    IF strs = <<>> THEN <<>>
    ELSE IF Len(strs) = 1 THEN strs[1]
    ELSE strs[1] \o <<" ">> \o Join(Tail(strs))

\* arguments a user may give: an option, a message of two words, an empty string
ArgSamples == { <<"--all">>, <<"fix", " ", "bug">>, <<>> }

\* target directories: a plain one and one with a blank in its name
PathSamples == { <<"/w/r0">>, <<"/w/my", " ", "repo">> }

Commands == {"status", "fetch", "pull", "passthrough"}

RECURSIVE SeqsUpTo(_, _)
SeqsUpTo(S, n) ==
    IF n = 0 THEN {<<>>}
    ELSE SeqsUpTo(S, n - 1) \cup
         {Append(q, x) : q \in {r \in SeqsUpTo(S, n - 1) : Len(r) = n - 1}, x \in S}

\* the `-c` value of each URL scheme
RewriteValue(scheme) ==
    IF scheme = "Ssh"
    THEN <<"url.git@github.com:.insteadOf=https://github.com/">>
    ELSE <<"url.https://github.com/.insteadOf=git@github.com:">>

\* the build_command closure of each subcommand module
\* status::run: GitCommand::with_global_args(repo, ["--no-optional-locks"],
\*              ["status", "--porcelain", "-b"] + extra_args)
\* fetch::run / pull::run / passthrough::run: GitCommand::new(repo, ..)
BuildCommand(c, repo, extra) ==
    CASE c = "status" ->
           [repo_path |-> repo,
            global_args |-> << <<"--no-optional-locks">> >>,
            args |-> << <<"status">>, <<"--porcelain">>, <<"-b">> >> \o extra]
      [] c = "fetch" ->
           [repo_path |-> repo, global_args |-> <<>>,
            args |-> << <<"fetch">> >> \o extra]
      [] c = "pull" ->
           [repo_path |-> repo, global_args |-> <<>>,
            args |-> << <<"pull">> >> \o extra]
      [] c = "passthrough" ->
           [repo_path |-> repo, global_args |-> <<>>, args |-> extra]

\* faulty variant, for comparison: spawn adds the URL override after the global options
SpawnArgsOverrideLast(c, scheme) ==
    LET a1 == c.global_args
        a2 == IF scheme = None THEN a1
              ELSE a1 \o << <<"-c">>, RewriteValue(scheme) >>
    IN  a2 \o << <<"-C">>, c.repo_path >> \o c.args

\* GitCommand::spawn: the arguments added to Command::new("git"), in the order
\* of the cmd.arg / cmd.args calls
SpawnArgs(c, scheme) ==
    LET a1 == IF scheme = None THEN <<>>
              ELSE << <<"-c">>, RewriteValue(scheme) >>
        a2 == a1 \o c.global_args
        a3 == Append(Append(a2, <<"-C">>), c.repo_path)
    IN  a3 \o c.args

\* GitCommand::command_string_with_scheme:
\* format!("git {}{}-C {} {}", scheme_args, global, repo_path, args.join(" "))
CommandString(c, scheme) ==
    LET scheme_args ==
            IF scheme = None THEN <<>>
            ELSE <<"-c", " ", "\"">> \o RewriteValue(scheme) \o <<"\"", " ">>
        global ==
            IF c.global_args = <<>> THEN <<>>
            ELSE Join(c.global_args) \o <<" ">>
    IN  <<"git", " ">> \o scheme_args \o global \o <<"-C", " ">> \o c.repo_path
            \o <<" ">> \o Join(c.args)

CmdInit ==
    /\ command \in Commands
    /\ extra_args \in SeqsUpTo(ArgSamples, MaxExtraArgs)
    /\ repo_path \in PathSamples
    /\ url_scheme \in {None, "Ssh", "Https"}
    /\ cmd = NoCommand
    /\ cmdpc = "input"
    /\ argv = <<>>
    /\ line = <<>>
    /\ cmderr = None

\* passthrough::run: `if args.is_empty() { bail!("No git command specified") }`
PassthroughBail ==
    /\ cmdpc = "input"
    /\ command = "passthrough"
    /\ extra_args = <<>>
    /\ cmdpc' = "bailed"
    /\ cmderr' = "No git command specified"
    /\ UNCHANGED <<engineVars, fmtVars, mainVars, command, extra_args, repo_path, url_scheme, cmd, argv, line>>

\* faulty variant, for comparison: passthrough builds its command without looking at args
BuildWithoutArgsTest ==
    /\ cmdpc = "input"
    /\ cmd' = BuildCommand(command, repo_path, extra_args)
    /\ cmdpc' = "built"
    /\ UNCHANGED <<engineVars, fmtVars, mainVars, command, extra_args, repo_path, url_scheme, argv, line, cmderr>>

\* `let cmd = build_command(repo);`
Build ==
    /\ cmdpc = "input"
    /\ ~(command = "passthrough" /\ extra_args = <<>>)
    /\ cmd' = BuildCommand(command, repo_path, extra_args)
    /\ cmdpc' = "built"
    /\ UNCHANGED <<engineVars, fmtVars, mainVars, command, extra_args, repo_path, url_scheme, argv, line, cmderr>>

\* the live run: `cmd.spawn(url_scheme)`
SpawnCommand ==
    /\ cmdpc = "built"
    /\ argv = <<>>
    /\ argv' = SpawnArgs(cmd, url_scheme)
    /\ UNCHANGED <<engineVars, fmtVars, mainVars, command, extra_args, repo_path, url_scheme, cmd, cmdpc, line, cmderr>>

\* the dry run: `println!("{}", cmd.command_string_with_scheme(url_scheme))`
PrintCommand ==
    /\ cmdpc = "built"
    /\ line = <<>>
    /\ line' = CommandString(cmd, url_scheme)
    /\ UNCHANGED <<engineVars, fmtVars, mainVars, command, extra_args, repo_path, url_scheme, cmd, cmdpc, argv, cmderr>>

\* the engine is not running
EngineIdle ==
    /\ engine = "run_parallel"
    /\ dry_run = FALSE
    /\ max_connections = 0
    /\ repos = <<>>
    /\ env = [i \in AllIdx |-> Outcomes[1]]
    /\ phase = "idle"
    /\ spawned = 0
    /\ semaphore = FALSE
    /\ count = 0
    /\ wpc = [i \in AllIdx |-> "unspawned"]
    /\ wbranch = [i \in AllIdx |-> None]
    /\ wresult = [i \in AllIdx |-> None]
    /\ chan = <<>>
    /\ results = <<>>
    /\ next_to_print = 0
    /\ cpc = "recv"
    /\ out = <<>>
    /\ launches = [i \in AllIdx |-> 0]

CmdNext ==
    \/ PassthroughBail
    \/ Build
    \/ SpawnCommand
    \/ PrintCommand

CmdStart == EngineIdle /\ CmdInit /\ FmtIdle /\ ColIdle /\ MainIdle

CmdSpec == CmdStart /\ [][CmdNext]_vars

\* ======================================================================
\* Output classification: the OutputFormatter implementations
\* ======================================================================
\* Text is a sequence of characters. The operators below are the str methods
\* the classifiers call.

\* the characters of a string literal: `String::from_utf8_lossy(..)`
Chars(str) == [i \in 1 .. Len(str) |-> SubSeq(str, i, i)]

\* char::is_whitespace, on the characters that occur
IsWhitespace(ch) == ch \in {" ", "\t", "\n", "\r"}

\* the positions of the characters of s that are not whitespace
InkIdx(s) == {i \in 1 .. Len(s) : ~IsWhitespace(s[i])}

TrimStart(s) ==
    IF InkIdx(s) = {} THEN <<>>
    ELSE SubSeq(s, CHOOSE i \in InkIdx(s) : \A j \in InkIdx(s) : i <= j, Len(s))

TrimEnd(s) ==
    IF InkIdx(s) = {} THEN <<>>
    ELSE SubSeq(s, 1, CHOOSE i \in InkIdx(s) : \A j \in InkIdx(s) : i >= j)

\* str::trim
Trim(s) == TrimEnd(TrimStart(s))

\* `l.trim().is_empty()`
IsBlank(s) == Trim(s) = <<>>

\* str::starts_with
StartsWith(s, p) == Len(s) >= Len(p) /\ SubSeq(s, 1, Len(p)) = p

\* str::find: the 0-based position of the first occurrence of p, or -1 (None)
Find(s, p) ==
    LET hits == {i \in 0 .. (Len(s) - Len(p)) : SubSeq(s, i + 1, i + Len(p)) = p}
    IN  IF hits = {} THEN -1
        ELSE CHOOSE i \in hits : \A j \in hits : i <= j

\* str::contains
Contains(s, p) == Find(s, p) # -1

\* the text from 0-based position `from` on: `&s[from..]`
SliceFrom(s, from) == SubSeq(s, from + 1, Len(s))

\* str::lines: split at "\n", a "\r" before it belongs to the line ending, and
\* the text after the last "\n" is a line only if it is not empty
StripCr(l) ==
    IF l # <<>> /\ l[Len(l)] = "\r" THEN SubSeq(l, 1, Len(l) - 1) ELSE l

\* the positions of the character ch in s, and the k-th of them
Positions(s, ch) == {i \in 1 .. Len(s) : s[i] = ch}

KthPosition(s, ch, k) ==
    CHOOSE i \in Positions(s, ch) :
        Cardinality({j \in Positions(s, ch) : j <= i}) = k

\* the k-th piece of s cut at every ch: after the (k-1)-th ch, before the k-th
Piece(s, ch, k) ==
    SubSeq(s,
           IF k = 1 THEN 1 ELSE KthPosition(s, ch, k - 1) + 1,
           IF k > Cardinality(Positions(s, ch))
           THEN Len(s)
           ELSE KthPosition(s, ch, k) - 1)

Lines(s) ==
    LET n == Cardinality(Positions(s, "\n"))
    IN  [k \in 1 .. n |-> StripCr(Piece(s, "\n", k))]
            \o (IF Piece(s, "\n", n + 1) = <<>> THEN <<>>
                ELSE <<Piece(s, "\n", n + 1)>>)

\* str::split(sep) for a one-character separator: always at least one piece
Split(s, sep) ==
    [k \in 1 .. (Cardinality(Positions(s, sep)) + 1) |-> Piece(s, sep, k)]

\* the positions of the lines that satisfy a test, and the first of them
FirstOf(idx) == CHOOSE i \in idx : \A j \in idx : i <= j

NonBlankIdx(ls) == {i \in 1 .. Len(ls) : ~IsBlank(ls[i])}

\* `lines.find(|l| !l.trim().is_empty()).unwrap_or(default)`
FirstNonBlankOr(ls, default) ==
    IF NonBlankIdx(ls) = {} THEN default ELSE ls[FirstOf(NonBlankIdx(ls))]

\* `lines.next().unwrap_or(default)`
FirstLineOr(ls, default) ==
    IF ls = <<>> THEN default ELSE ls[1]

\* slice::join(sep) on texts
RECURSIVE JoinWith(_, _)
JoinWith(parts, sep) ==
    IF parts = <<>> THEN <<>>
    ELSE IF Len(parts) = 1 THEN parts[1]
    ELSE parts[1] \o sep \o JoinWith(Tail(parts), sep)

\* Display of an unsigned integer
DigitChars == <<"0", "1", "2", "3", "4", "5", "6", "7", "8", "9">>

RECURSIVE ToDecimal(_)
ToDecimal(n) ==
    IF n < 10 THEN <<DigitChars[n + 1]>>
    ELSE ToDecimal(n \div 10) \o <<DigitChars[(n % 10) + 1]>>

IsDigit(ch) == \E d \in 1 .. 10 : DigitChars[d] = ch

DigitValue(ch) == (CHOOSE d \in 1 .. 10 : DigitChars[d] = ch) - 1

RECURSIVE DecimalValue(_)
DecimalValue(ds) ==
    IF ds = <<>> THEN 0
    ELSE 10 * DecimalValue(SubSeq(ds, 1, Len(ds) - 1)) + DigitValue(ds[Len(ds)])

\* `n.parse::<usize>().unwrap_or(0)`: an optional "+", then one or more digits
\* (the texts classified here hold numbers of at most nine digits, which fit)
ParseUsizeOrZero(s) ==
    LET ds == IF s # <<>> /\ Head(s) = "+" THEN Tail(s) ELSE s
    IN  IF ds # <<>> /\ \A k \in 1 .. Len(ds) : IsDigit(ds[k])
        THEN DecimalValue(ds)
        ELSE 0

\* ---- FormattedResult
\* a FormattedResult; `panicked` is set when format did not return
Formatted(branch, message) == [panicked |-> FALSE, branch |-> branch, message |-> message]

\* FormattedResult::message_only, and the formatters that return a bare String
MessageOnly(message) == Formatted(<<>>, message)

Panicked == [panicked |-> TRUE, branch |-> <<>>, message |-> <<>>]

\* ---- status (rust/src/commands/status.rs)
\* the loop over `info.split(',')`: the last clause of each kind wins
RECURSIVE TrackingCounts(_, _)
TrackingCounts(parts, acc) ==
    IF parts = <<>> THEN acc
    ELSE LET part == Trim(Head(parts))
             next == IF StartsWith(part, Chars("ahead "))
                     THEN [acc EXCEPT !.ahead =
                               ParseUsizeOrZero(SliceFrom(part, Len(Chars("ahead "))))]
                     ELSE IF StartsWith(part, Chars("behind "))
                     THEN [acc EXCEPT !.behind =
                               ParseUsizeOrZero(SliceFrom(part, Len(Chars("behind "))))]
                     ELSE acc
         IN  TrackingCounts(Tail(parts), next)

BranchInfo(branch, ahead, behind) ==
    [panicked |-> FALSE, branch |-> branch, ahead |-> ahead, behind |-> behind]

\* parse_branch_line
ParseBranchLine(header) ==
    IF ~StartsWith(header, Chars("## ")) THEN BranchInfo(<<>>, 0, 0)
    ELSE
    LET content == SliceFrom(header, 3) IN
    IF StartsWith(content, Chars("HEAD (no branch)")) THEN BranchInfo(Chars("HEAD (detached)"), 0, 0)
    ELSE IF StartsWith(content, Chars("No commits yet on ")) THEN BranchInfo(SliceFrom(content, 18), 0, 0)
    ELSE IF StartsWith(content, Chars("Initial commit on ")) THEN BranchInfo(SliceFrom(content, 18), 0, 0)
    ELSE
    LET dots_pos == Find(content, Chars("..."))
        branch_part == IF dots_pos # -1 THEN SubSeq(content, 1, dots_pos)
                       ELSE Trim(content)
        tracking_info == IF dots_pos # -1 THEN SliceFrom(content, dots_pos + 3)
                         ELSE <<>>
        bracket_start == Find(tracking_info, <<"[">>)
        bracket_end == Find(tracking_info, <<"]">>)
    IN  IF bracket_start = -1 \/ bracket_end = -1
        THEN BranchInfo(branch_part, 0, 0)
        ELSE IF bracket_start + 1 > bracket_end
        \* `&tracking_info[bracket_start + 1..bracket_end]` with start > end
        THEN [panicked |-> TRUE, branch |-> branch_part, ahead |-> 0, behind |-> 0]
        ELSE LET info == SubSeq(tracking_info, bracket_start + 2, bracket_end)
                 c == TrackingCounts(Split(info, ","), [ahead |-> 0, behind |-> 0])
             IN  BranchInfo(branch_part, c.ahead, c.behind)

\* the counters of StatusFormatter::format before the first line
StatusStart ==
    [panicked |-> FALSE, branch |-> <<>>, ahead |-> 0, behind |-> 0,
     modified |-> 0, added |-> 0, deleted |-> 0, untracked |-> 0, renamed |-> 0]

\* faulty variant, for comparison: the worktree column is counted whatever the index
\* column holds
StatusLineCountingBothColumns(acc, l) ==
    IF StartsWith(l, Chars("## ")) \/ Len(l) < 2 THEN acc
    ELSE LET a1 == CASE l[1] = "?" -> [acc EXCEPT !.untracked = @ + 1]
                     [] l[1] = "M" -> [acc EXCEPT !.modified = @ + 1]
                     [] l[1] = "A" -> [acc EXCEPT !.added = @ + 1]
                     [] l[1] = "D" -> [acc EXCEPT !.deleted = @ + 1]
                     [] l[1] = "R" -> [acc EXCEPT !.renamed = @ + 1]
                     [] OTHER -> acc
         IN  CASE l[2] = "M" -> [a1 EXCEPT !.modified = @ + 1]
               [] l[2] = "D" -> [a1 EXCEPT !.deleted = @ + 1]
               [] OTHER -> a1

\* faulty variant, for comparison: only the index column is counted
StatusLineIndexOnly(acc, l) ==
    IF StartsWith(l, Chars("## ")) \/ Len(l) < 2 THEN acc
    ELSE CASE l[1] = "?" -> [acc EXCEPT !.untracked = @ + 1]
           [] l[1] = "M" -> [acc EXCEPT !.modified = @ + 1]
           [] l[1] = "A" -> [acc EXCEPT !.added = @ + 1]
           [] l[1] = "D" -> [acc EXCEPT !.deleted = @ + 1]
           [] l[1] = "R" -> [acc EXCEPT !.renamed = @ + 1]
           [] OTHER -> acc

\* one iteration of `for line in stdout.lines()`
StatusLine(acc, l) ==
    IF StartsWith(l, Chars("## "))
    THEN LET b == ParseBranchLine(l)
         IN  [acc EXCEPT !.panicked = acc.panicked \/ b.panicked,
                         !.branch = b.branch, !.ahead = b.ahead, !.behind = b.behind]
    ELSE IF Len(l) < 2 THEN acc
    ELSE LET index_status == l[1]
             worktree_status == l[2]
         IN  IF index_status = "?" THEN [acc EXCEPT !.untracked = @ + 1]
             ELSE LET a1 == CASE index_status = "M" -> [acc EXCEPT !.modified = @ + 1]
                              [] index_status = "A" -> [acc EXCEPT !.added = @ + 1]
                              [] index_status = "D" -> [acc EXCEPT !.deleted = @ + 1]
                              [] index_status = "R" -> [acc EXCEPT !.renamed = @ + 1]
                              [] OTHER -> acc
                  IN  IF index_status = " "
                      THEN CASE worktree_status = "M" -> [a1 EXCEPT !.modified = @ + 1]
                             [] worktree_status = "D" -> [a1 EXCEPT !.deleted = @ + 1]
                             [] OTHER -> a1
                      ELSE a1

RECURSIVE StatusScan(_, _)
StatusScan(ls, acc) ==
    IF ls = <<>> THEN acc ELSE StatusScan(Tail(ls), StatusLine(acc, Head(ls)))

\* faulty variant, for comparison: a clause for every counter, zero or not
ClauseEvenIfZero(n, word) == <<ToDecimal(n) \o word>>

\* `if n > 0 { parts.push(format!("{} word", n)) }`
Clause(n, word) == IF n > 0 THEN <<ToDecimal(n) \o word>> ELSE <<>>

\* the message of a successful status
StatusMessage(c) ==
    LET file_parts == Clause(c.modified, Chars(" modified")) \o Clause(c.added, Chars(" added"))
                        \o Clause(c.deleted, Chars(" deleted")) \o Clause(c.renamed, Chars(" renamed"))
                        \o Clause(c.untracked, Chars(" untracked"))
        has_file_changes == file_parts # <<>>
        parts == file_parts \o Clause(c.ahead, Chars(" ahead")) \o Clause(c.behind, Chars(" behind"))
    IN  IF parts = <<>> THEN Chars("clean")
        ELSE IF ~has_file_changes THEN Chars("clean, ") \o JoinWith(parts, Chars(", "))
        ELSE JoinWith(parts, Chars(", "))

\* `FormattedResult { branch, message }` after the loop, unless the header
\* parser has panicked
StatusResult(c) ==
    IF c.panicked THEN Panicked ELSE Formatted(c.branch, StatusMessage(c))

\* StatusFormatter::format
StatusFormat(o) ==
    IF ~o.success
    THEN Formatted(<<>>, FirstLineOr(Lines(o.stderr), Chars("unknown error")))
    ELSE StatusResult(StatusScan(Lines(o.stdout), StatusStart))

\* ---- fetch
ContainsUpdate(l) == Contains(l, Chars("->")) \/ Contains(l, Chars("[new"))

\* faulty variant, for comparison: the plural is used for every count
FetchSummaryAlwaysPlural(branch_count, tag_count) ==
    LET b == IF branch_count > 0
             THEN <<ToDecimal(branch_count) \o Chars(" branch") \o Chars("es")>>
             ELSE <<>>
        t == IF tag_count > 0
             THEN <<ToDecimal(tag_count) \o Chars(" tag") \o <<"s">>>>
             ELSE <<>>
    IN  JoinWith(b \o t, Chars(", ")) \o Chars(" updated")

\* "<b> branch(es), <t> tag(s) updated" (fit-rust/src/commands/fetch.rs)
FetchSummary(branch_count, tag_count) ==
    LET b == IF branch_count > 0
             THEN <<ToDecimal(branch_count) \o Chars(" branch")
                      \o (IF branch_count = 1 THEN <<>> ELSE Chars("es"))>>
             ELSE <<>>
        t == IF tag_count > 0
             THEN <<ToDecimal(tag_count) \o Chars(" tag")
                      \o (IF tag_count = 1 THEN <<>> ELSE <<"s">>)>>
             ELSE <<>>
    IN  JoinWith(b \o t, Chars(", ")) \o Chars(" updated")

\* faulty variant, for comparison: the "From" lines of stderr count as output
FetchHasOutputCountingFrom(o) ==
    \/ \E i \in 1 .. Len(Lines(o.stdout)) : ~IsBlank(Lines(o.stdout)[i])
    \/ \E i \in 1 .. Len(Lines(o.stderr)) : ~IsBlank(Lines(o.stderr)[i])

\* whether anything but blank lines and "From" lines was written
FetchHasOutput(o) ==
    \/ \E i \in 1 .. Len(Lines(o.stdout)) : ~IsBlank(Lines(o.stdout)[i])
    \/ \E i \in 1 .. Len(Lines(o.stderr)) :
          /\ ~IsBlank(Lines(o.stderr)[i])
          /\ ~StartsWith(Lines(o.stderr)[i], Chars("From"))

\* faulty variant, for comparison: the update lines of stderr are counted too
FetchSuccessCountingStderr(o) ==
    LET ls == Lines(o.stdout) \o Lines(o.stderr)
        updates == {i \in 1 .. Len(ls) : ContainsUpdate(ls[i])}
        tag_count == Cardinality({i \in updates : Contains(ls[i], Chars("[new tag]"))})
        branch_count == Cardinality({i \in updates : ~Contains(ls[i], Chars("[new tag]"))})
    IN  IF ~FetchHasOutput(o) THEN Chars("no new commits")
        ELSE IF branch_count > 0 \/ tag_count > 0
        THEN FetchSummary(branch_count, tag_count)
        ELSE Chars("fetched")

\* the success part of fit-rust/src/commands/fetch.rs
FetchSuccess(o) ==
    LET ls == Lines(o.stdout)
        updates == {i \in 1 .. Len(ls) : ContainsUpdate(ls[i])}
        tag_count == Cardinality({i \in updates : Contains(ls[i], Chars("[new tag]"))})
        branch_count == Cardinality({i \in updates : ~Contains(ls[i], Chars("[new tag]"))})
    IN  IF ~FetchHasOutput(o) THEN Chars("no new commits")
        ELSE IF branch_count > 0 \/ tag_count > 0
        THEN FetchSummary(branch_count, tag_count)
        ELSE Chars("fetched")

\* the lines of a text that satisfy a test given as a set of positions
Filtered(ls, keep) == [k \in 1 .. Cardinality(keep) |->
                         ls[CHOOSE i \in keep : Cardinality({j \in keep : j <= i}) = k]]

\* the success part of rust/src/commands/fetch.rs: the two `*_content` vectors,
\* the `updates` vector, the two counts and the `parts` vector
RustFetchSuccess(o) ==
    LET out_lines == Lines(o.stdout)
        err_lines == Lines(o.stderr)
        stdout_content ==
            Filtered(out_lines, {i \in 1 .. Len(out_lines) : ~IsBlank(out_lines[i])})
        stderr_content ==
            Filtered(err_lines, {i \in 1 .. Len(err_lines) :
                                    /\ ~IsBlank(err_lines[i])
                                    /\ ~StartsWith(err_lines[i], Chars("From"))})
        updates ==
            Filtered(out_lines, {i \in 1 .. Len(out_lines) :
                                    \/ Contains(out_lines[i], Chars("->"))
                                    \/ Contains(out_lines[i], Chars("[new"))})
        branch_count ==
            Cardinality({i \in 1 .. Len(updates) : ~Contains(updates[i], Chars("[new tag]"))})
        tag_count ==
            Cardinality({i \in 1 .. Len(updates) : Contains(updates[i], Chars("[new tag]"))})
        parts ==
            (IF branch_count > 0
             THEN <<ToDecimal(branch_count) \o Chars(" branch")
                      \o (IF branch_count = 1 THEN <<>> ELSE Chars("es"))>>
             ELSE <<>>)
            \o (IF tag_count > 0
                THEN <<ToDecimal(tag_count) \o Chars(" tag")
                         \o (IF tag_count = 1 THEN <<>> ELSE <<"s">>)>>
                ELSE <<>>)
    IN  IF stdout_content = <<>> /\ stderr_content = <<>> THEN Chars("no new commits")
        ELSE IF updates # <<>> /\ parts # <<>>
        THEN JoinWith(parts, Chars(", ")) \o Chars(" updated")
        ELSE Chars("fetched")

\* FetchFormatter::format (rust/src/commands/fetch.rs)
FetchFormat(o) ==
    IF ~o.success
    THEN MessageOnly(Chars("ERROR: ") \o FirstNonBlankOr(Lines(o.stderr), Chars("unknown error")))
    ELSE MessageOnly(RustFetchSuccess(o))

\* FetchFormatter::format (fit-rust/src/commands/fetch.rs)
FitFetchFormat(o) ==
    IF ~o.success
    THEN MessageOnly(FirstLineOr(Lines(o.stderr), Chars("unknown error")))
    ELSE MessageOnly(FetchSuccess(o))

\* ---- pull (nit-rust/src/commands/pull.rs)
\* faulty variant, for comparison: the summary line is looked for before the phrase
PullFormatSummaryFirst(o) ==
    IF ~o.success
    THEN MessageOnly(FirstLineOr(Lines(o.stderr), Chars("unknown error")))
    ELSE
    LET ls == Lines(o.stdout)
        summary == {i \in 1 .. Len(ls) : Contains(ls[i], Chars("files changed"))}
        range == {i \in 1 .. Len(ls) : Contains(ls[i], Chars("..")) \/ Contains(ls[i], Chars("Updating"))}
    IN  IF summary # {} THEN MessageOnly(Trim(ls[FirstOf(summary)]))
        ELSE IF Contains(o.stdout, Chars("Already up to date")) THEN MessageOnly(Chars("Already up to date"))
        ELSE IF range # {} THEN MessageOnly(Trim(ls[FirstOf(range)]))
        ELSE MessageOnly(Trim(FirstNonBlankOr(ls \o Lines(o.stderr), Chars("completed"))))

\* PullFormatter::format
PullFormat(o) ==
    IF ~o.success
    THEN MessageOnly(FirstLineOr(Lines(o.stderr), Chars("unknown error")))
    ELSE
    LET ls == Lines(o.stdout)
        summary == {i \in 1 .. Len(ls) : Contains(ls[i], Chars("files changed"))}
        range == {i \in 1 .. Len(ls) : Contains(ls[i], Chars("..")) \/ Contains(ls[i], Chars("Updating"))}
    IN  IF Contains(o.stdout, Chars("Already up to date")) THEN MessageOnly(Chars("Already up to date"))
        ELSE IF summary # {} THEN MessageOnly(Trim(ls[FirstOf(summary)]))
        ELSE IF range # {} THEN MessageOnly(Trim(ls[FirstOf(range)]))
        ELSE MessageOnly(Trim(FirstNonBlankOr(ls \o Lines(o.stderr), Chars("completed"))))

\* ---- passthrough (rust/src/commands/passthrough.rs)
\* faulty variant, for comparison: stderr is searched before stdout
PassthroughFormatStderrFirst(o) ==
    IF ~o.success
    THEN Formatted(<<>>, Chars("ERROR: ") \o FirstNonBlankOr(Lines(o.stderr), Chars("unknown error")))
    ELSE Formatted(<<>>,
                   Trim(FirstNonBlankOr(Lines(o.stderr) \o Lines(o.stdout), Chars("ok"))))

\* PassthroughFormatter::format
PassthroughFormat(o) ==
    IF ~o.success
    THEN Formatted(<<>>, Chars("ERROR: ") \o FirstNonBlankOr(Lines(o.stderr), Chars("unknown error")))
    ELSE Formatted(<<>>,
                   Trim(FirstNonBlankOr(Lines(o.stdout) \o Lines(o.stderr), Chars("ok"))))

Formatters == {"status", "fetch", "fit_fetch", "pull", "passthrough"}

\* OutputFormatter::format of the chosen classifier
FormatWith(f, o) ==
    CASE f = "status" -> StatusFormat(o)
      [] f = "fetch" -> FetchFormat(o)
      [] f = "fit_fetch" -> FitFetchFormat(o)
      [] f = "pull" -> PullFormat(o)
      [] f = "passthrough" -> PassthroughFormat(o)

\* ---- the outputs that are classified
\* lines git writes to stderr
ErrLines ==
    {<<>>, Chars(" "), Chars("fatal: not a git repository"),
     Chars("some other line"), Chars("From github.com:user/repo")}

\* lines the subcommand of each classifier writes to stdout
OutLines(f) ==
    CASE f = "status" -> {Chars("## main"), Chars("## main...origin/main [ahead 2, behind 3]"), Chars(" M file.txt"), Chars("?? f.txt")}
      [] f \in {"fetch", "fit_fetch"} ->
           {Chars("   abc..def  main -> origin/main"), Chars(" * [new tag] v1.0 -> v1.0"), Chars(" * [new branch] dev -> origin/dev"), Chars("remote: done")}
      [] f = "pull" ->
           {Chars("Already up to date."), Chars(" 3 files changed, 10 insertions(+)"),
            Chars("Updating abc..def"), Chars("Fast-forward"), Chars(" .../dir/f.rs | 2 +-")}
      [] f = "passthrough" -> {Chars("hello"), Chars("  world "), Chars(" "), <<>>}

\* the lines of q, each ended by "\n"
RECURSIVE Terminated(_)
Terminated(q) ==
    IF q = <<>> THEN <<>> ELSE Head(q) \o <<"\n">> \o Terminated(Tail(q))

\* the texts of at most n lines over S, with and without the final "\n"
Texts(S, n) ==
    {Terminated(q) : q \in SeqsUpTo(S, n)}
        \cup {SubSeq(Terminated(q), 1, Len(Terminated(q)) - 1) :
                 q \in SeqsUpTo(S, n) \ {<<>>}}

\* ---- the outputs of git status --porcelain -b
\* the record lines: the two status columns, a blank and the path
StatusRecords ==
    {Chars(" M file.txt"), Chars("M  f"), Chars("MM f"), Chars("AM f"),
     Chars("D  f"), Chars("R  a -> b"), Chars(" D f"), Chars("?? f.txt"),
     Chars(" A f"), Chars("UU f")}

\* the header git writes for a branch with an upstream: the bracket holds the
\* non-zero counts, and is absent when both are zero
TrackingHeader(b, u, a, m) ==
    Chars("## ") \o b \o Chars("...") \o u \o
        (IF a > 0 /\ m > 0
         THEN Chars(" [ahead ") \o ToDecimal(a) \o Chars(", behind ") \o ToDecimal(m) \o Chars("]")
         ELSE IF a > 0 THEN Chars(" [ahead ") \o ToDecimal(a) \o Chars("]")
         ELSE IF m > 0 THEN Chars(" [behind ") \o ToDecimal(m) \o Chars("]")
         ELSE <<>>)

\* branch and upstream names: ']' is a legal character of a ref name
TrackedBranches ==
    {<<Chars("main"), Chars("origin/main")>>, <<Chars("fix]"), Chars("origin/fix]")>>}

AheadBehind == {<<0, 0>>, <<2, 0>>, <<0, 1>>, <<2, 3>>}

StatusHeaders ==
    {Chars("## main"), Chars("## HEAD (no branch)"), Chars("## No commits yet on dev"), Chars("## Initial commit on dev")}
        \cup {TrackingHeader(bu[1], bu[2], ab[1], ab[2]) :
                 bu \in TrackedBranches, ab \in AheadBehind}

\* the texts of at most n lines over S, every line ended by "\n"
TerminatedTexts(S, n) == {Terminated(q) : q \in SeqsUpTo(S, n)}

\* nothing, or a header followed by records: every header with at most one
\* record, and two of the headers with up to MaxLines records
StatusTexts ==
    {<<>>}
        \cup {Terminated(<<h>> \o q) :
                 h \in StatusHeaders, q \in SeqsUpTo(StatusRecords, 1)}
        \cup {Terminated(<<h>> \o q) :
                 h \in {Chars("## main"), Chars("## main...origin/main [ahead 2, behind 3]")},
                 q \in SeqsUpTo(StatusRecords, MaxLines)}

\* what a successful process of each classifier's subcommand may have written
SuccessOutputs(f) ==
    CASE f = "status" ->
           {[success |-> TRUE, stdout |-> so, stderr |-> se] :
               so \in StatusTexts, se \in TerminatedTexts({Chars("some other line")}, 1)}
      [] f \in {"fetch", "fit_fetch"} ->
           {[success |-> TRUE, stdout |-> so, stderr |-> se] :
               so \in TerminatedTexts(OutLines(f) \cup {Chars(" ")}, MaxLines),
               se \in TerminatedTexts({Chars(" "), Chars("From github.com:user/repo"), Chars("some other line")}, MaxLines)
                         \cup {Terminated(q \o <<Chars(" * [new branch] dev -> origin/dev")>>) :
                                  q \in SeqsUpTo({Chars("From github.com:user/repo")}, 1)}}
      [] OTHER ->
           {[success |-> TRUE, stdout |-> so, stderr |-> se] :
               so \in Texts(OutLines(f), MaxLines), se \in Texts(ErrLines, 1)}

\* A failed process with any stderr, or a successful one; a failed process has
\* written at most one line to stdout.
Outputs(f) ==
    {[success |-> FALSE, stdout |-> so, stderr |-> se] :
        so \in TerminatedTexts(OutLines(f), 1), se \in Texts(ErrLines, MaxLines)}
    \cup SuccessOutputs(f)

FmtInit ==
    /\ formatter \in Formatters
    /\ output \in Outputs(formatter)
    /\ fr = [panicked |-> FALSE, branch |-> <<>>, message |-> <<>>]
    /\ fmtpc = "input"
    /\ tally = StatusStart
    /\ scanned = 0

\* whether format runs the status classifier's loop over stdout
ScansStatus == formatter = "status" /\ output.success

\* one iteration of `for line in stdout.lines()` of StatusFormatter::format; a
\* panic of the header parser ends the loop
ScanLine ==
    /\ fmtpc = "input"
    /\ ScansStatus
    /\ ~tally.panicked
    /\ scanned < Len(Lines(output.stdout))
    /\ tally' = StatusLine(tally, Lines(output.stdout)[scanned + 1])
    /\ scanned' = scanned + 1
    /\ UNCHANGED <<engineVars, cmdVars, mainVars, colVars, formatter, output, fr, fmtpc>>

\* `let fr = formatter.format(output);` (for status: what follows the loop)
FormatOutput ==
    /\ fmtpc = "input"
    /\ ScansStatus => (tally.panicked \/ scanned = Len(Lines(output.stdout)))
    /\ fr' = IF ScansStatus THEN StatusResult(tally) ELSE FormatWith(formatter, output)
    /\ fmtpc' = "formatted"
    /\ UNCHANGED <<engineVars, cmdVars, mainVars, colVars, formatter, output, tally, scanned>>

FmtNext ==
    \/ ScanLine
    \/ FormatOutput

FmtStart == EngineIdle /\ CmdIdle /\ FmtInit /\ ColIdle /\ MainIdle

FmtSpec == FmtStart /\ [][FmtNext]_vars

\* ======================================================================
\* The columns of the table: compute_name_width and format_column
\* ======================================================================
MIN_REPO_NAME_WIDTH == 4

MAX_REPO_NAME_WIDTH_CAP == 48

MAX_BRANCH_WIDTH_CAP == 16

\* a character whose UTF-8 encoding has two bytes, such as U+00E9
TwoByteChar == "e-acute"

\* str::len: the length of the text in bytes, the sum of the lengths of the
\* UTF-8 encodings of its characters
RECURSIVE ByteLen(_)
ByteLen(s) ==
    IF s = <<>> THEN 0
    ELSE (IF Head(s) = TwoByteChar THEN 2 ELSE 1) + ByteLen(Tail(s))

\* the loop `max_len = max_len.max(name.len())` over the names
RECURSIVE MaxLen(_, _)
MaxLen(ns, max_len) ==
    IF ns = <<>> THEN max_len
    ELSE MaxLen(Tail(ns),
                IF ByteLen(Head(ns)) > max_len THEN ByteLen(Head(ns)) ELSE max_len)

\* faulty variant, for comparison: the cap is applied, the minimum is not
ComputeNameWidthWithoutFloor(ns) ==
    LET max_len == MaxLen(ns, 0)
    IN  IF max_len < MAX_REPO_NAME_WIDTH_CAP THEN max_len ELSE MAX_REPO_NAME_WIDTH_CAP

\* compute_name_width on the display names of the targets:
\* `max_len.min(MAX_REPO_NAME_WIDTH_CAP).max(MIN_REPO_NAME_WIDTH)`
ComputeNameWidth(ns) ==
    LET max_len == MaxLen(ns, 0)
        capped == IF max_len < MAX_REPO_NAME_WIDTH_CAP THEN max_len
                  ELSE MAX_REPO_NAME_WIDTH_CAP
    IN  IF capped > MIN_REPO_NAME_WIDTH THEN capped ELSE MIN_REPO_NAME_WIDTH

\* `value.chars().take(n).collect()`
Take(s, n) == SubSeq(s, 1, IF n < Len(s) THEN n ELSE Len(s))

\* `format!("{value:<width$}")`: padded on the right up to `width` characters
PadRight(s, w) == s \o [i \in 1 .. (w - Len(s)) |-> " "]

\* format_column
FormatColumn(v, w) ==
    IF ByteLen(v) > w
    THEN IF w <= 3
         THEN Take(v, w)
         ELSE Take(v, w - 3) \o Chars("...")
    ELSE PadRight(v, w)

\* a text of n times the character ch
Repeat(ch, n) == [i \in 1 .. n |-> ch]

\* ---- the bracketed name of the simple report (fit-rust/src/runner.rs)
MAX_REPO_NAME_WIDTH == 24

\* `&name[..n]`: the first n bytes of the text; the slice panics when byte n
\* is not the boundary of a character
ByteSlice(s, n) ==
    IF \E k \in 0 .. Len(s) : ByteLen(SubSeq(s, 1, k)) = n
    THEN [panicked |-> FALSE,
          text |-> SubSeq(s, 1, CHOOSE k \in 0 .. Len(s) : ByteLen(SubSeq(s, 1, k)) = n)]
    ELSE [panicked |-> TRUE, text |-> <<>>]

\* format_repo_name: the name, or its first 20 bytes and "-..." when it has
\* more than 24 bytes, left-aligned in 24 columns between brackets
FormatRepoName(name) ==
    IF ByteLen(name) > MAX_REPO_NAME_WIDTH
    THEN LET cut == ByteSlice(name, MAX_REPO_NAME_WIDTH - 4)
         IN  IF cut.panicked THEN [panicked |-> TRUE, text |-> <<>>]
             ELSE [panicked |-> FALSE,
                   text |-> <<"[">> \o PadRight(cut.text \o Chars("-..."), MAX_REPO_NAME_WIDTH)
                               \o <<"]">>]
    ELSE [panicked |-> FALSE,
          text |-> <<"[">> \o PadRight(name, MAX_REPO_NAME_WIDTH) \o <<"]">>]

\* either the names of a run are given (shorter than the minimum, between the
\* bounds, at the cap, beyond it, one with characters outside ASCII), or a
\* value and a width (every short text over an ASCII and a two-byte character,
\* and two longer than the branch column), or the name of one target of the
\* simple report (around 24 bytes, ASCII and not)
ColInit ==
    /\ colpc \in {"names", "column", "repo_name"}
    /\ names \in IF colpc = "names"
                 THEN SeqsUpTo({Repeat("a", 1), Repeat("n", 5),
                                Repeat("x", MAX_REPO_NAME_WIDTH_CAP), Repeat("y", 60),
                                Repeat(TwoByteChar, 3)}, MaxRepos)
                 ELSE {<<>>}
    /\ name_width = -1
    /\ value \in CASE colpc = "column" ->
                       SeqsUpTo({"a", TwoByteChar}, MaxValueLen)
                           \cup {Repeat("b", 20), Repeat(TwoByteChar, 9)}
                    [] colpc = "repo_name" ->
                       {Repeat("a", n) : n \in {0, 5, 23, 24, 25, 40}}
                           \cup {Repeat(TwoByteChar, n) : n \in {3, 12, 13, 24}}
                           \cup {Repeat("a", n) \o Repeat(TwoByteChar, 12) : n \in {0, 1, 2}}
                    [] OTHER -> {<<>>}
    /\ width \in IF colpc = "column" THEN (0 .. MaxWidth) \cup {MAX_BRANCH_WIDTH_CAP} ELSE {0}
    /\ column = <<>>

\* `let name_width = compute_name_width(repos, ctx.display_root());`
NameWidth ==
    /\ colpc = "names"
    /\ name_width' = ComputeNameWidth(names)
    /\ colpc' = "width"
    /\ UNCHANGED <<engineVars, cmdVars, mainVars, formatter, output, fr, fmtpc, tally,
                   scanned, names, value, width, column>>

\* format_column on a value and a width
Column ==
    /\ colpc = "column"
    /\ column' = FormatColumn(value, width)
    /\ colpc' = "formatted"
    /\ UNCHANGED <<engineVars, cmdVars, mainVars, formatter, output, fr, fmtpc, tally,
                   scanned, names, name_width, value, width>>

\* print_result: `format_repo_name(&name)` on the display name of a target
RepoName ==
    /\ colpc = "repo_name"
    /\ column' = FormatRepoName(value).text
    /\ colpc' = IF FormatRepoName(value).panicked THEN "panicked" ELSE "bracketed"
    /\ UNCHANGED <<engineVars, cmdVars, mainVars, formatter, output, fr, fmtpc, tally,
                   scanned, names, name_width, value, width>>

ColNext ==
    \/ NameWidth
    \/ Column
    \/ RepoName

ColStart == EngineIdle /\ CmdIdle /\ FmtIdle /\ ColInit /\ MainIdle

ColSpec == ColStart /\ [][ColNext]_vars

\* ======================================================================
\* fn main: the program around the engine
\* ======================================================================
Programs == {"git-all", "fit"}

\* what the engine function changes
runVars ==
    <<phase, spawned, semaphore, count, wpc, wbranch, wresult, chan, results,
      next_to_print, cpc, out, launches>>

\* `std::process::exit(9)` of git-all when discovery returns no repository
GitAllNoReposExit == 9

\* `return Ok(())` of fit when discovery returns no repository: exit status 0
FitNoReposExit == 0

\* the exit status of a main that returns Ok(()), and of one that returns Err
ExitOk == 0

ExitErr == 1

\* the exit status of clap on a usage error
ExitUsage == 2

NoReposLine == "No git repositories found in current directory"

\* the run function each program's subcommands end in
EngineOf(prog) == IF prog = "git-all" THEN "run_parallel" ELSE "fit_run_parallel"

MainInit ==
    /\ program \in Programs
    /\ mainpc = "start"
    /\ cli_command = None
    /\ found = -1
    /\ exit_code = -1
    /\ mainout = <<>>
    /\ meta_args = <<>>
    /\ mainerr = <<>>
    /\ ext_args = <<>>
    /\ alias_output = [success |-> FALSE, utf8 |-> TRUE, stdout |-> <<>>]
    /\ routed = [command |-> None, args |-> <<>>]

\* `let is_meta = ..; if !is_meta && is_inside_git_repo() { passthrough_to_git(); }`
CheckInsideRepo ==
    /\ mainpc = "start"
    /\ \E is_meta \in BOOLEAN, inside \in BOOLEAN :
          /\ mainpc' = IF ~is_meta /\ inside THEN "exec_git" ELSE "parse"
          /\ cli_command' = IF is_meta THEN "Meta" ELSE None
    /\ UNCHANGED <<engineVars, cmdVars, fmtVars, program, meta_args, mainerr, found, exit_code, mainout,
                   ext_args, alias_output, routed>>

\* passthrough_to_git: exec replaces the process by git, or fails and exits 1
PassthroughToGit ==
    /\ mainpc = "exec_git"
    /\ \E exec_ok \in BOOLEAN :
          IF exec_ok
          THEN mainpc' = "replaced" /\ exit_code' = exit_code
          ELSE mainpc' = "exited" /\ exit_code' = ExitErr
    /\ UNCHANGED <<engineVars, cmdVars, fmtVars, program, meta_args, mainerr, cli_command, found, mainout,
                   ext_args, alias_output, routed>>

\* `let cli = Cli::parse();` clap exits on a usage error; otherwise the options
\* and the subcommand are known
ParseCli ==
    /\ mainpc = "parse"
    /\ \/ /\ mainpc' = "exited"
          /\ exit_code' = ExitUsage
          /\ UNCHANGED <<cli_command, dry_run, max_connections, meta_args, ext_args>>
       \/ /\ cli_command' \in
                IF cli_command = "Meta" THEN {"Meta"}
                ELSE {"Meta", "Pull", "Fetch", "Status", "External", None}
          /\ meta_args' \in IF cli_command' = "Meta"
                            THEN {<<>>, <<"help">>, <<"unknown">>, <<"version">>, <<"Help">>,
                                  <<"help", "unknown">>, <<"unknown", "help">>}
                            ELSE {<<>>}
          /\ ext_args' \in IF cli_command' = "External"
                           THEN {<<"st">>, <<"st", "--short">>}
                           ELSE {<<>>}
          /\ dry_run' \in BOOLEAN
          /\ max_connections' \in 0 .. MaxConnections
          /\ mainpc' = IF cli_command' = "Meta" THEN "meta" ELSE "discover"
          /\ exit_code' = exit_code
    /\ UNCHANGED <<cmdVars, fmtVars, runVars, engine, repos, env, program, mainerr, found,
                   mainout, alias_output, routed>>

\* ---- meta (fit-rust/src/meta.rs)
\* get_git_version: what `git --version` says, or "unknown"
GitVersions == {"2.43.0", "unknown"}

\* print_help: the version line, a blank line, clap's help, a blank line
PrintHelp(prog, git_version) ==
    <<prog \o " v" \o "CARGO_PKG_VERSION" \o " (git " \o git_version \o ")",
      "",
      "Usage: " \o prog \o " [OPTIONS] [COMMAND]",
      "">>

\* faulty variant, for comparison: only an explicit "help" prints the help
MetaIsHelpOnlyIfNamed(args) == args # <<>> /\ args[1] = "help"

\* `match args.first().map(|s| s.as_str()) { None | Some("help") => ..`
MetaIsHelp(args) == args = <<>> \/ args[1] = "help"

\* `if let Some(Commands::Meta { args }) = &cli.command { meta::run(args); return Ok(()); }`
\* meta::run prints the help and returns, or reports the unknown subcommand
\* (the two eprintln! of the arm `Some(unknown)`) and ends the process with
\* std::process::exit(1). The meta module of the rust crate is not in the
\* tree: for git-all either arm is possible
RunMeta ==
    /\ mainpc = "meta"
    /\ \E helps \in (IF program = "fit" THEN {MetaIsHelp(meta_args)} ELSE BOOLEAN),
          git_version \in GitVersions :
          IF helps
          THEN /\ mainout' = mainout \o PrintHelp(program, git_version)
               /\ mainerr' = mainerr
               /\ exit_code' = ExitOk
          ELSE /\ mainout' = mainout
               /\ mainerr' = mainerr \o
                     <<"Unknown meta subcommand: "
                         \o (IF meta_args = <<>> THEN "" ELSE meta_args[1]),
                       "Available: help">>
               /\ exit_code' = ExitErr
    /\ mainpc' = "exited"
    /\ UNCHANGED <<engineVars, cmdVars, fmtVars, program, meta_args, cli_command, found,
                   ext_args, alias_output, routed>>

\* discovery: it fails (main returns the error), or returns the sorted list;
\* an empty list ends the program here
Discover ==
    /\ mainpc = "discover"
    /\ \/ /\ mainpc' = "exited"
          /\ exit_code' = ExitErr
          /\ UNCHANGED <<repos, found, mainout>>
       \/ \E n \in 0 .. MaxRepos :
             /\ found' = n
             /\ repos' = SubSeq(RepoNames, 1, n)
             /\ IF n = 0
                THEN /\ mainout' = Append(mainout, NoReposLine)
                     /\ mainpc' = "exited"
                     /\ exit_code' = IF program = "git-all"
                                     THEN GitAllNoReposExit
                                     ELSE FitNoReposExit
                ELSE /\ mainout' = mainout
                     /\ mainpc' = "banner"
                     /\ exit_code' = exit_code
    /\ UNCHANGED <<cmdVars, fmtVars, runVars, engine, dry_run, max_connections, env,
                   program, meta_args, mainerr, cli_command, ext_args, alias_output, routed>>

\* `if cli.dry_run { println!("[.. v..] Running in **dry-run mode** ..") }`
Banner ==
    /\ mainpc = "banner"
    /\ mainout' = IF dry_run THEN Append(mainout, "dry-run banner") ELSE mainout
    /\ mainpc' = "dispatch"
    /\ UNCHANGED <<engineVars, cmdVars, fmtVars, program, meta_args, mainerr, cli_command, found, exit_code,
                   ext_args, alias_output, routed>>

\* ---- alias routing of an external subcommand (rust/src/main.rs)
\* whether git-all has to look the subcommand up as a git alias
RoutesAlias == program = "git-all" /\ cli_command = "External"

\* resolve_git_alias on the Output of git config: None when git failed, when
\* stdout is not UTF-8 and when the trimmed value is empty
ResolveGitAlias(o) ==
    IF ~o.success \/ ~o.utf8 \/ Trim(o.stdout) = <<>>
    THEN [some |-> FALSE, value |-> <<>>]
    ELSE [some |-> TRUE, value |-> Trim(o.stdout)]

\* faulty variant, for comparison: the alias value only has to begin with the name
OptimizedCommandForPrefix(alias_value) ==
    CASE StartsWith(TrimStart(alias_value), Chars("status")) -> "status"
      [] StartsWith(TrimStart(alias_value), Chars("pull")) -> "pull"
      [] StartsWith(TrimStart(alias_value), Chars("fetch")) -> "fetch"
      [] OTHER -> None

\* optimized_command_for: `alias_value.split_whitespace().next()?` matched
\* against the three names; None for anything else
OptimizedCommandFor(alias_value) ==
    LET t == TrimStart(alias_value)
        gaps == {i \in 1 .. Len(t) : IsWhitespace(t[i])}
        first_word == IF gaps = {} THEN t
                      ELSE SubSeq(t, 1, (CHOOSE i \in gaps : \A j \in gaps : i <= j) - 1)
    IN  CASE t = <<>> -> None
          [] first_word = Chars("status") -> "status"
          [] first_word = Chars("pull") -> "pull"
          [] first_word = Chars("fetch") -> "fetch"
          [] OTHER -> None

\* `Command::new("git").args(["config", "--get", ..]).output()`: git fails (no
\* such alias), or prints the alias value and a newline
ResolveAlias ==
    /\ mainpc = "dispatch"
    /\ RoutesAlias
    /\ alias_output' \in
          {[success |-> FALSE, utf8 |-> TRUE, stdout |-> <<>>],
           [success |-> TRUE, utf8 |-> FALSE, stdout |-> Chars("status\n")]}
            \cup {[success |-> TRUE, utf8 |-> TRUE, stdout |-> Chars(v)] :
                     v \in {"status\n", "status -sb\n", "pull --rebase\n", "fetch\t--all\n",
                            "!git status\n", "log --oneline\n", "statusx\n", "\n"}}
    /\ mainpc' = "alias"
    /\ UNCHANGED <<engineVars, cmdVars, fmtVars, program, meta_args, mainerr, cli_command, found,
                   exit_code, mainout, ext_args, routed>>

\* `resolve_git_alias(&args[0]).and_then(|v| optimized_command_for(&v))` and
\* the match on it: an optimized command gets args[1..], passthrough gets args
Route ==
    /\ mainpc = "alias"
    /\ LET v == ResolveGitAlias(alias_output)
           resolved == IF v.some THEN OptimizedCommandFor(v.value) ELSE None
       IN  routed' = IF resolved = None
                     THEN [command |-> "passthrough", args |-> ext_args]
                     ELSE [command |-> resolved, args |-> Tail(ext_args)]
    /\ mainpc' = "routed"
    /\ UNCHANGED <<engineVars, cmdVars, fmtVars, program, meta_args, mainerr, cli_command, found,
                   exit_code, mainout, ext_args, alias_output>>

\* `match cli.command { .. }`: every subcommand ends in the program's
\* run_parallel, which takes over the arguments; without a subcommand main
\* prints a hint and returns Ok(())
Dispatch ==
    /\ \/ mainpc = "dispatch" /\ ~RoutesAlias
       \/ mainpc = "routed"
    /\ IF cli_command = None
       THEN /\ mainout' = Append(mainout, "No command specified")
            /\ mainpc' = "exited"
            /\ exit_code' = ExitOk
            /\ UNCHANGED <<engine, env, phase, routed, ext_args, alias_output>>
       ELSE /\ engine' = EngineOf(program)
            /\ env' = [i \in AllIdx |-> Outcomes[(i % Len(Outcomes)) + 1]]
            /\ phase' = "entry"
            /\ mainpc' = "engine"
            /\ routed' = IF mainpc = "routed" THEN routed
                         ELSE [command |-> CASE cli_command = "Pull" -> "pull"
                                             [] cli_command = "Fetch" -> "fetch"
                                             [] cli_command = "Status" -> "status"
                                             [] cli_command = "External" -> "passthrough",
                               args |-> ext_args]
            /\ ext_args' = <<>>
            /\ alias_output' = [success |-> FALSE, utf8 |-> TRUE, stdout |-> <<>>]
            /\ UNCHANGED <<mainout, exit_code>>
    /\ UNCHANGED <<cmdVars, fmtVars, dry_run, max_connections, repos, spawned, semaphore,
                   count, wpc, wbranch, wresult, chan, results, next_to_print, cpc, out,
                   launches, program, meta_args, mainerr, cli_command, found>>

\* the run function has returned Ok(()): main returns it
MainReturn ==
    /\ mainpc = "engine"
    /\ phase = "returned"
    /\ mainpc' = "exited"
    /\ exit_code' = ExitOk
    /\ UNCHANGED <<engineVars, cmdVars, fmtVars, program, meta_args, mainerr, cli_command, found, mainout,
                   ext_args, alias_output, routed>>

MainNext ==
    \/ CheckInsideRepo
    \/ PassthroughToGit
    \/ ParseCli
    \/ RunMeta
    \/ Discover
    \/ Banner
    \/ ResolveAlias
    \/ Route
    \/ Dispatch
    \/ MainReturn
    \/ Next

MainStart == EngineIdle /\ CmdIdle /\ FmtIdle /\ ColIdle /\ MainInit

MainSpec == MainStart /\ [][MainNext]_vars

\* ======================================================================
\* Properties of the engine
\* ======================================================================
LiveTable == ~dry_run /\ engine \in {"run_parallel", "fit_run_parallel"}

\* workers that have passed acquire() and not yet called release()
Holders == {w \in Targets : wpc[w] \in {"resolve", "launch", "running", "release"}}

\* workers inside acquire(): about to lock, in the wait set, or notified
InAcquire(w) == wpc[w] \in {"acquire", "waiting", "woken"}

\* C1: in a live run of run_parallel the k-th emitted line is the line of the
\* k-th target: the lines come in strictly increasing target order, none
\* twice, none skipped, and when the run has returned there is one per target.
C1_LinesInTargetOrder ==
    LiveTable =>
        /\ Len(out) <= Len(repos)
        /\ \A k \in 1 .. Len(out) :
              /\ out[k].kind = "line"
              /\ out[k].repo = repos[k]
        /\ (phase = "returned" => Len(out) = Len(repos))

\* the last target's result has arrived before the second one's, the first
\* line is out, and the run goes on to its end
C1_Witness ==
    /\ LiveTable
    /\ Len(repos) >= 3
    /\ Len(out) = 1
    /\ results[2].filled
    /\ ~results[1].filled
    /\ wpc[1] = "running"

\* C2: with the limiter active, at most max_connections workers are between
\* acquire() and release() at any time.
C2_AtMostMaxConcurrent ==
    (~dry_run /\ phase # "entry" /\ LimiterActive) =>
        Cardinality(Holders) <= max_connections

\* every permit is out and a further worker waits for one
C2_Witness ==
    /\ semaphore
    /\ max_connections = 2
    /\ Cardinality(Holders) = max_connections
    /\ Waiters # {}

\* C3: under fair scheduling with terminating subprocesses the engine returns,
\* and a live run has returned only when every worker has ended, the channel is
\* drained and every index has been emitted.
C3_CollectsAllThenTerminates ==
    /\ <>(phase = "returned")
    /\ [](phase = "returned" /\ ~dry_run =>
            /\ \A w \in Targets : wpc[w] = "done"
            /\ chan = <<>>
            /\ next_to_print = Len(repos)
            /\ \A i \in Targets : \E k \in 1 .. Len(out) : out[k].repo = Repo(i))

C3_Witness ==
    /\ phase = "returned"
    /\ ~dry_run
    /\ Len(repos) >= 3
    /\ next_to_print = Len(repos)

\* C4: with the limiter active no worker stays inside acquire() forever: at
\* every moment each worker is, or will later be, outside acquire() (a worker
\* leaves acquire() only by taking a permit).
C4_EveryWorkerGetsPermit ==
    \A w \in AllIdx : []<>~(semaphore /\ InAcquire(w))

\* a notified waiter finds a permit while another worker still waits
C4_Witness ==
    /\ semaphore
    /\ \E w \in Targets, v \in Targets :
          /\ w # v
          /\ wpc[w] = "woken"
          /\ wpc[v] = "waiting"
          /\ count > 0

\* C5: a worker whose subprocess has ended releases and sends without waiting
\* for anything, whatever the collector and the other targets do, and a result
\* that was sent stays in the channel or in its slot until the cursor reaches
\* it.
C5_WorkersNeverWaitForPrinting ==
    ~dry_run =>
        \A w \in Targets :
            /\ wpc[w] = "release" => ENABLED Release(w)
            /\ wpc[w] = "send" => ENABLED Send(w)
            /\ (wpc[w] = "done" /\ phase # "returned" /\ w >= next_to_print) =>
                   \/ \E k \in 1 .. Len(chan) : chan[k].idx = w
                   \/ results[w].filled

\* the collector is stalled on index 0, whose subprocess runs, while a later
\* target's result is already stored and another worker is about to send
C5_Witness ==
    /\ phase = "collect"
    /\ cpc = "recv"
    /\ next_to_print = 0
    /\ Len(repos) >= 3
    /\ wpc[0] = "running"
    /\ results[1].filled
    /\ wpc[2] = "send"

\* C6: a dry run starts no worker, takes no permit, resolves no branch and
\* launches nothing; it prints the command line of each target, in target order,
\* one per target.
C6_DryRunLaunchesNothing ==
    dry_run =>
        /\ \A w \in AllIdx : wpc[w] = "unspawned" /\ launches[w] = 0 /\ wbranch[w] = None
        /\ ~semaphore /\ count = 0 /\ chan = <<>>
        /\ Len(out) <= Len(repos)
        /\ \A k \in 1 .. Len(out) :
              out[k] = [stream |-> "stdout", kind |-> "command", repo |-> repos[k]]
        /\ (phase = "returned" => Len(out) = Len(repos))

C6_Witness ==
    /\ dry_run
    /\ phase = "returned"
    /\ engine = "run_passthrough"
    /\ Len(out) >= 3

\* C11: whatever the targets' launches and exit statuses are, a live run that
\* has returned (run_parallel returns Ok(())) has launched every target's
\* command and written one line for every target; before that, a target whose
\* subprocess has ended is never held up by another target's failure: its
\* result is sent, stored or printed.
C11_FailuresAreContained ==
    LiveTable =>
        /\ phase = "returned" =>
              /\ Len(out) = Len(repos)
              /\ \A w \in Targets :
                    /\ launches[w] = 1
                    /\ out[w + 1].kind = "line"
                    /\ out[w + 1].repo = Repo(w)
        /\ \A w \in Targets :
              wpc[w] = "done" =>
                 \/ \E k \in 1 .. Len(chan) : chan[k].idx = w
                 \/ results[w].filled
                 \/ w < next_to_print

\* a returned run in which the first target's launch failed, a later target
\* exited non-zero and both, and the third, have their lines
C11_Witness ==
    /\ LiveTable
    /\ phase = "returned"
    /\ Len(repos) >= 3
    /\ ~env[0].launch
    /\ env[1].result = "OkExit1"
    /\ out[1].message = "ERROR: io error"
    /\ out[2].message = "formatted exit 1"
    /\ Len(out) = 3

\* C13: a target whose command could not be launched (or waited for) has, at
\* its position, the line "ERROR: <os error>", which is not the classifier's
\* message; no command is launched more than once.
C13_LaunchFailureLine ==
    LiveTable =>
        /\ \A w \in AllIdx : launches[w] <= 1
        /\ \A w \in Targets :
              (w < Len(out) /\ env[w].result = LaunchErr) =>
                 /\ out[w + 1].repo = Repo(w)
                 /\ out[w + 1].message = "ERROR: io error"
                 /\ out[w + 1].message
                        \notin {Format(r).message : r \in {"OkExit0", "OkExit1"}}

\* the second target's launch failed; its line stands between the lines of
\* its neighbours, and it was launched once
C13_Witness ==
    /\ LiveTable
    /\ phase = "returned"
    /\ Len(repos) >= 3
    /\ env[0].launch
    /\ ~env[1].launch
    /\ launches[1] = 1
    /\ out[2].message = "ERROR: io error"
    /\ out[1].message # "ERROR: io error"

LivePassthrough == ~dry_run /\ engine = "run_passthrough"

\* the position of a repository in the target list
IndexOf(repo) == CHOOSE i \in Targets : Repo(i) = repo

\* the positions of `out` at which the captured bytes of target i's stream are
OutputsOf(i, stream) ==
    {k \in 1 .. Len(out) :
        out[k].repo = Repo(i) /\ out[k].kind = "bytes" /\ out[k].stream = stream}

\* C23: in a live run of run_passthrough, whatever the order in which the
\* targets complete, nothing of a later target is written before something of
\* an earlier one; what is written for a target is the captured Output of its
\* own process; no stream of a target is written twice; and when the run has
\* returned, the stdout and the stderr of every target that produced an Output
\* have been written once each, stdout first.
C23_PassthroughForwardsInOrder ==
    LivePassthrough =>
        /\ \A k, l \in 1 .. Len(out) :
              k < l => IndexOf(out[k].repo) <= IndexOf(out[l].repo)
        /\ \A k \in 1 .. Len(out) :
              out[k].kind = "bytes" =>
                 /\ env[IndexOf(out[k].repo)].launch
                 /\ out[k].message = env[IndexOf(out[k].repo)].result
        /\ \A i \in Targets :
              /\ Cardinality(OutputsOf(i, "stdout")) <= 1
              /\ Cardinality(OutputsOf(i, "stderr")) <= 1
              /\ (phase = "returned" /\ env[i].launch /\ env[i].result # LaunchErr) =>
                    \E k \in 1 .. (Len(out) - 1) :
                       /\ OutputsOf(i, "stdout") = {k}
                       /\ OutputsOf(i, "stderr") = {k + 1}

\* the third target's Output has arrived before the second one's; only the
\* first target's two streams are out
C23_Witness ==
    /\ LivePassthrough
    /\ phase = "collect"
    /\ Len(repos) >= 3
    /\ results[2].filled
    /\ ~results[1].filled
    /\ wpc[1] = "running"
    /\ Len(out) = 2
    /\ OutputsOf(0, "stdout") = {1}
    /\ OutputsOf(0, "stderr") = {2}

\* a live run past the creation of the limiter
LiveRun == ~dry_run /\ phase \in {"spawn", "collect", "returned"}

\* what the subprocesses of target i return to its worker
ResultOf(i) == IF env[i].launch THEN env[i].result ELSE LaunchErr

\* what the worker of target i sends
MessageOf(i) ==
    [idx |-> i, repo |-> Repo(i),
     branch |-> IF ResolvesBranch THEN env[i].branch ELSE None,
     result |-> ResultOf(i)]

\* what is written for the targets before n, in target order
RECURSIVE EmittedUpTo(_)
EmittedUpTo(n) ==
    IF n = 0 THEN <<>>
    ELSE EmittedUpTo(n - 1) \o Printed(FilledSlot(MessageOf(n - 1)))

\* C26: the limiter exists exactly when max_connections is neither 0 nor at
\* least the number of targets; without it no worker ever waits; and the run
\* with or without it writes, by the time it returns, the same sequence: the
\* output of the targets in target order, which depends on neither the worker
\* count nor the presence of the limiter.
C26_SkippedLimiterIsUnobservable ==
    LiveRun =>
        /\ semaphore <=> ~(max_connections = 0 \/ max_connections >= Len(repos))
        /\ ~semaphore => \A w \in Targets : wpc[w] \notin {"waiting", "woken"}
        /\ phase = "returned" => out = EmittedUpTo(Len(repos))

\* a worker count equal to the number of targets: no limiter, and all the
\* workers run their subprocesses at once
C26_Witness ==
    /\ LiveRun
    /\ max_connections = Len(repos)
    /\ Len(repos) >= 2
    /\ ~semaphore
    /\ \A w \in Targets : wpc[w] = "running"

\* C27: the structured results and the output of a live run are a function of
\* the target list and of what each target's subprocess returns, at every
\* point of every interleaving: a message in the channel and a filled slot hold
\* the target's own repository, branch and result, and the output so far is
\* the output of the targets before the cursor, in target order.
C27_Deterministic ==
    LiveRun =>
        /\ \A k \in 1 .. Len(chan) : chan[k] = MessageOf(chan[k].idx)
        /\ \A i \in Targets : results[i].filled => results[i] = FilledSlot(MessageOf(i))
        /\ next_to_print <= Len(repos)
        /\ out = EmittedUpTo(next_to_print)

\* the results arrive in the order 2, 1, 0: the last target's is stored, the
\* second one's is in the channel behind it, nothing is written yet
C27_Witness ==
    /\ LiveRun
    /\ Len(repos) >= 3
    /\ results[2].filled
    /\ Len(chan) = 1
    /\ chan[1].idx = 1
    /\ wpc[0] # "done"
    /\ out = <<>>

\* whether the result of target i has left the channel: it is in its slot, or
\* has been printed
Stored(i) == results[i].filled \/ i < next_to_print

\* C30: every slot is empty when the workers are started; a worker that has
\* ended, also after a failed launch, has sent one message with its own index
\* and a worker that has not ended has sent none, so every index is delivered
\* at most once; a filled slot is changed only by the drain loop taking it.
C30_SlotsFilledOnce ==
    /\ [](LiveRun =>
            /\ phase = "spawn" => \A i \in Targets : results[i] = EmptySlot
            /\ \A i \in Targets :
                  Cardinality({k \in 1 .. Len(chan) : chan[k].idx = i})
                      + (IF Stored(i) THEN 1 ELSE 0)
                  = IF wpc[i] = "done" THEN 1 ELSE 0
            /\ \A k \in 1 .. Len(chan) : chan[k].repo = Repo(chan[k].idx))
    /\ [][LiveRun /\ phase = "collect" =>
            \A i \in Targets :
               results[i].filled =>
                  \/ results'[i] = results[i]
                  \/ results'[i] = EmptySlot /\ next_to_print = i /\ next_to_print' = i + 1]_vars

\* the worker of a target whose launch failed has ended and its message is in
\* the slot of its index, while an earlier target still runs
C30_Witness ==
    /\ LiveRun
    /\ Len(repos) >= 2
    /\ ~env[1].launch
    /\ wpc[1] = "done"
    /\ results[1] = FilledSlot(MessageOf(1))
    /\ results[1].result = LaunchErr
    /\ wpc[0] = "running"

\* C31: in a live run the emit cursor is 0 when the workers are started, never
\* exceeds the number of targets and equals it when the run has returned; a
\* step leaves it alone and writes nothing, or raises it by exactly one, and
\* then the slot it leaves was filled and something was written; in the table
\* modes the cursor is the number of lines written.
C31_CursorAdvances ==
    /\ [](LiveRun =>
            /\ next_to_print \in 0 .. Len(repos)
            /\ phase = "spawn" => next_to_print = 0
            /\ phase = "returned" => next_to_print = Len(repos)
            /\ engine # "run_passthrough" => Len(out) = next_to_print)
    /\ [][(LiveRun /\ phase = "collect") =>
            \/ next_to_print' = next_to_print /\ out' = out
            \/ /\ next_to_print' = next_to_print + 1
               /\ results[next_to_print].filled
               /\ Len(out') > Len(out)]_vars

\* the cursor stands at 2 of 3 while the last target still runs
C31_Witness ==
    /\ LiveRun
    /\ phase = "collect"
    /\ Len(repos) = 3
    /\ next_to_print = 2
    /\ wpc[2] = "running"

\* C32: whenever the collection loop waits for the next arrival, the cursor is
\* at the end or the slot at the cursor is empty: no result whose whole prefix
\* has arrived is left unprinted while the loop waits.
C32_EagerEmission ==
    (LiveRun /\ phase = "collect" /\ cpc = "recv") =>
        \/ next_to_print = Len(repos)
        \/ ~results[next_to_print].filled

\* the first result arrived first and is printed, the third is stored and
\* waits for the second: the loop waits with the cursor at the empty slot
C32_Witness ==
    /\ LiveRun
    /\ phase = "collect"
    /\ cpc = "recv"
    /\ Len(repos) >= 3
    /\ next_to_print = 1
    /\ results[2].filled
    /\ chan = <<>>

\* C33: a step of a worker (acquire, resolve, launch, wait, release, send, a
\* wake-up: each moves the worker's position) leaves the slots, the cursor and the output as they are, and of the
\* other workers it changes nothing but, through the limiter, the position of a
\* waiter its release wakes; the slots and the cursor change only in the steps
\* of the collection loop and its set-up.
C33_OnlyCollectorTouchesSlots ==
    [][/\ \A w \in Targets :
             (wpc'[w] # wpc[w] /\ (WorkerStep(w) \/ SpuriousWake(w))) =>
                /\ results' = results
                /\ next_to_print' = next_to_print
                /\ out' = out
                /\ \A v \in Targets \ {w} :
                      /\ wbranch'[v] = wbranch[v]
                      /\ wresult'[v] = wresult[v]
                      /\ launches'[v] = launches[v]
                      /\ \/ wpc'[v] = wpc[v]
                         \/ /\ semaphore
                            /\ wpc[w] = "release"
                            /\ wpc[v] = "waiting"
                            /\ wpc'[v] = "woken"
       /\ (results' # results \/ next_to_print' # next_to_print) =>
             BeginLive \/ Recv \/ Emit]_vars

\* one worker has released its permit and sent its result, the release woke
\* one waiter and the limiter still holds back another, and the collection
\* loop has not yet touched a slot
C33_Witness ==
    /\ LiveRun
    /\ semaphore
    /\ Len(chan) = 1
    /\ \E v \in Targets : wpc[v] = "woken"
    /\ Waiters # {}
    /\ next_to_print = 0
    /\ \A i \in Targets : ~results[i].filled

\* C38: with the limiter active, the available permits plus the workers that
\* hold one (between acquire and release) are max_connections in every state,
\* so the available count never exceeds it; a worker that sends or has ended
\* holds no permit, also after a failed launch; when every worker has ended
\* all permits are available.
C38_PermitConservation ==
    (LiveRun /\ semaphore) =>
        /\ count + Cardinality(Holders) = max_connections
        /\ count \in 0 .. max_connections
        /\ \A w \in Targets :
              wpc[w] \in {"send", "done"} => (w \notin Holders /\ launches[w] = 1)
        /\ (\A w \in Targets : wpc[w] = "done") => count = max_connections

\* every worker has ended, one of them after a failed launch, and the permits
\* are all back
C38_Witness ==
    /\ LiveRun
    /\ semaphore
    /\ \E w \in Targets : ~env[w].launch
    /\ \A w \in Targets : wpc[w] = "done"
    /\ count = max_connections

\* C39: in the table modes the line at position i carries the name of target
\* i, the message derived from the result of target i's own subprocess, and
\* (branch-aware mode) a branch derived from target i's own results.
C39_ResultAttribution ==
    LiveTable =>
        \A k \in 1 .. Len(out) :
           LET i == k - 1
               result == IF env[i].launch THEN env[i].result ELSE LaunchErr
           IN  /\ out[k].repo = Repo(i)
               /\ out[k].message = IF result = LaunchErr THEN "ERROR: io error"
                                   ELSE Format(result).message
               /\ out[k].branch \in
                     IF engine = "run_parallel"
                     THEN {env[i].branch, Format(result).branch} \ {""}
                     ELSE {None}

\* three targets with three different results, all printed
C39_Witness ==
    /\ LiveTable
    /\ phase = "returned"
    /\ Len(repos) >= 3
    /\ out[1].message # out[2].message
    /\ out[2].message # out[3].message
    /\ out[1].message # out[3].message

\* C34: in a live run of run_parallel (rust) the branch column of target i's
\* line is the classifier's branch when the command ran and the classifier
\* gave a non-empty branch, and otherwise (empty classifier branch, as on a
\* non-zero exit, or a failed launch or wait) the branch resolve_branch
\* returned for target i.
C34_BranchColumn ==
    (~dry_run /\ engine = "run_parallel") =>
        \A k \in 1 .. Len(out) :
           LET i == k - 1
               ran == env[i].launch /\ env[i].result # LaunchErr
           IN  out[k].branch =
                 IF ran /\ Format(env[i].result).branch # ""
                 THEN Format(env[i].result).branch
                 ELSE env[i].branch

\* one run shows a parsed branch, a resolved branch after a non-zero exit and
\* the resolved "unknown" after a failed launch
C34_Witness ==
    /\ ~dry_run
    /\ engine = "run_parallel"
    /\ phase = "returned"
    /\ Len(out) = 3
    /\ out[1].branch = "parsed"
    /\ out[2].branch = "unknown"
    /\ out[3].branch = "HEAD (detached)"

\* ======================================================================
\* Properties of the command assembly
\* ======================================================================
\* How a shell reads a command line: words are separated by blanks, a pair of
\* double quotes groups what it encloses into the word and is dropped.
RECURSIVE ShellSplit(_, _, _, _, _)
ShellSplit(s, i, cur, open, inq) ==
    IF i > Len(s)
    THEN IF open THEN <<cur>> ELSE <<>>
    ELSE IF s[i] = "\""
         THEN ShellSplit(s, i + 1, cur, TRUE, ~inq)
         ELSE IF s[i] = " " /\ ~inq
              THEN (IF open THEN <<cur>> ELSE <<>>)
                       \o ShellSplit(s, i + 1, <<>>, FALSE, FALSE)
              ELSE ShellSplit(s, i + 1, Append(cur, s[i]), TRUE, inq)

ShellWords(s) == ShellSplit(s, 1, <<>>, FALSE, FALSE)

\* C7: the command line a dry run prints is the command a live run executes:
\* read as a command line it is the program "git" followed by exactly the
\* arguments spawn passes, in the same order.
C7_DryRunLineIsSpawnedCommand ==
    (argv # <<>> /\ line # <<>>) =>
        ShellWords(line) = << <<"git">> >> \o argv

\* C8: the spawned argument list is the URL override (if configured), then the
\* global arguments, then -C and the target path, then the subcommand arguments;
\* the override precedes every global argument.
C8_SpawnArgumentOrder ==
    argv # <<>> =>
        LET r == IF url_scheme = None THEN 0 ELSE 2
            g == Len(cmd.global_args)
        IN  /\ Len(argv) = r + g + 2 + Len(cmd.args)
            /\ url_scheme # None =>
                  /\ argv[1] = <<"-c">>
                  /\ argv[2] = RewriteValue(url_scheme)
            /\ \A k \in 1 .. g : argv[r + k] = cmd.global_args[k]
            /\ argv[r + g + 1] = <<"-C">>
            /\ argv[r + g + 2] = repo_path
            /\ \A k \in 1 .. Len(cmd.args) : argv[r + g + 2 + k] = cmd.args[k]
            /\ command = "status" =>
                  /\ g = 1
                  /\ argv[r + 1] = <<"--no-optional-locks">>
                  /\ SubSeq(argv, r + 4, r + 6)
                       = << <<"status">>, <<"--porcelain">>, <<"-b">> >>

\* status with a URL override and a user argument has been spawned
C8_Witness ==
    /\ argv # <<>>
    /\ command = "status"
    /\ url_scheme = "Ssh"
    /\ Len(extra_args) = 2

\* C37: passthrough::run with an empty argument list returns the error "No git
\* command specified" and nothing else happens: no command is built, none is
\* spawned (live run), none is printed (dry run), and the engine is not
\* started; with arguments no such error is returned.
C37_PassthroughNeedsCommand ==
    /\ (command = "passthrough" /\ extra_args = <<>>) =>
          /\ cmdpc \in {"input", "bailed"}
          /\ cmdpc = "bailed" <=> cmderr = "No git command specified"
          /\ cmderr \in {None, "No git command specified"}
          /\ cmd = NoCommand
          /\ argv = <<>>
          /\ line = <<>>
          /\ phase = "idle"
    /\ cmderr # None => (command = "passthrough" /\ extra_args = <<>>)

\* passthrough without arguments has returned its error
C37_Witness ==
    /\ command = "passthrough"
    /\ extra_args = <<>>
    /\ cmdpc = "bailed"
    /\ cmderr = "No git command specified"

\* C35: format_repo_name never fails and returns a field of 26: '[', 24
\* columns, ']'; a name of at most 24 is padded with blanks on the right, a
\* longer one is cut to its first 20 characters followed by "-...".
C35_RepoNameField ==
    colpc \in {"bracketed", "panicked"} =>
        /\ colpc = "bracketed"
        /\ Len(column) = MAX_REPO_NAME_WIDTH + 2
        /\ column =
              <<"[">>
                \o (IF Len(value) <= MAX_REPO_NAME_WIDTH
                    THEN PadRight(value, MAX_REPO_NAME_WIDTH)
                    ELSE SubSeq(value, 1, MAX_REPO_NAME_WIDTH - 4) \o Chars("-..."))
                \o <<"]">>

\* C36: git-all routes an external subcommand to the optimized status, pull
\* or fetch run exactly when git config gave an alias value whose first
\* whitespace-separated word is that name, and then hands over the arguments
\* after the subcommand; with no alias, an empty value, a shell alias ("!..")
\* or any other first word it routes to passthrough with all the arguments.
C36_AliasRouting ==
    (mainpc = "routed" /\ RoutesAlias) =>
        LET t == Trim(alias_output.stdout)
            Leads(w) ==
                /\ alias_output.success
                /\ alias_output.utf8
                /\ \/ t = Chars(w)
                   \/ /\ Len(t) > Len(w)
                      /\ SubSeq(t, 1, Len(w)) = Chars(w)
                      /\ t[Len(w) + 1] \in {" ", "\t"}
        IN  /\ \A w \in {"status", "pull", "fetch"} :
                  routed.command = w <=> Leads(w)
            /\ routed.command \in {"status", "pull", "fetch", "passthrough"}
            /\ routed.args = IF routed.command = "passthrough" THEN ext_args
                             ELSE Tail(ext_args)

\* the alias `st = status -sb`: `git-all st --short` runs status with --short
C36_Witness ==
    /\ mainpc = "routed"
    /\ RoutesAlias
    /\ alias_output.stdout = Chars("status -sb\n")
    /\ ext_args = <<"st", "--short">>
    /\ routed = [command |-> "status", args |-> <<"--short">>]

\* ======================================================================
\* Properties of the classifiers
\* ======================================================================
Failed == fmtpc = "formatted" /\ ~output.success

\* C9: whatever the classifier, a non-zero exit gives the first non-blank line
\* of stderr as the message ("unknown error" when stderr is empty) and an empty
\* branch.
C9_FailureMessageIsFirstNonBlankLine ==
    Failed =>
        /\ ~fr.panicked
        /\ fr.branch = <<>>
        /\ NonBlankIdx(Lines(output.stderr)) # {} =>
              fr.message = Lines(output.stderr)[FirstOf(NonBlankIdx(Lines(output.stderr)))]
        /\ output.stderr = <<>> => fr.message = Chars("unknown error")

\* C10: a failure whose stderr is "fatal: not a git repository\nsome other
\* line\n" gives exactly "fatal: not a git repository" as the message and an
\* empty branch, whatever the classifier.
C10_FatalLineIsTheMessage ==
    (Failed /\ output.stderr = Terminated(<<Chars("fatal: not a git repository"), Chars("some other line")>>)) =>
        /\ fr.message = Chars("fatal: not a git repository")
        /\ fr.branch = <<>>

\* C12: in every command mode a non-zero exit is rendered as a message that
\* starts with "ERROR:".
C12_FailureHasErrorPrefix ==
    Failed => StartsWith(fr.message, SubSeq(Chars("ERROR: "), 1, 6))

\* the five file-change counters, in the order of the message
Counters == <<"modified", "added", "deleted", "renamed", "untracked">>

CounterSet == {Counters[k] : k \in 1 .. Len(Counters)}

StatusLines == Lines(output.stdout)

\* C15: one iteration of the status loop raises at most one of the five
\* counters, by one, and lowers none; an "MM" record raises modified only, an
\* "AM" record raises added only.
C15_OneIncrementPerRecord ==
    [][(fmtpc = "input" /\ scanned' = scanned + 1) =>
          /\ \A c \in CounterSet : tally'[c] - tally[c] \in {0, 1}
          /\ Cardinality({c \in CounterSet : tally'[c] # tally[c]}) <= 1
          /\ LET l == StatusLines[scanned + 1]
             IN  /\ StartsWith(l, Chars("MM")) => tally'.modified = tally.modified + 1
                 /\ StartsWith(l, Chars("AM")) =>
                       tally'.added = tally.added + 1 /\ tally'.modified = tally.modified
      ]_vars

\* a status of an "MM" record and an "AM" record: one modified, one added
C15_Witness ==
    /\ fmtpc = "formatted"
    /\ ScansStatus
    /\ StatusLines = <<Chars("## main"), Chars("MM f"), Chars("AM f")>>
    /\ tally.modified = 1
    /\ tally.added = 1
    /\ fr.message = <<"1">> \o Chars(" modified") \o Chars(", ") \o <<"1">> \o Chars(" added")

\* the reference classification of a record by its two columns
KindOfRecord(l) ==
    CASE l[1] = "?" -> "untracked"
      [] l[1] = "M" -> "modified"
      [] l[1] = "A" -> "added"
      [] l[1] = "D" -> "deleted"
      [] l[1] = "R" -> "renamed"
      [] l[1] = " " /\ l[2] = "M" -> "modified"
      [] l[1] = " " /\ l[2] = "D" -> "deleted"
      [] OTHER -> "none"

\* the records among the first n of the lines ls: the lines that are not a header
RecordsIn(ls, n) ==
    {k \in 1 .. n : ~StartsWith(ls[k], Chars("## ")) /\ Len(ls[k]) >= 2}

\* C16: after any number of lines of a successful status each counter equals
\* the number of records so far that the reference classification puts in its
\* kind; the result is formatted when all lines are done.
C16_CountsMatchReference ==
    (ScansStatus /\ fmtpc \in {"input", "formatted"}) =>
        LET ls == StatusLines
            kinds == [k \in RecordsIn(ls, scanned) |-> KindOfRecord(ls[k])]
        IN  /\ \A c \in CounterSet :
                  tally[c] = Cardinality({k \in DOMAIN kinds : kinds[k] = c})
            /\ (fmtpc = "formatted" /\ ~fr.panicked) => scanned = Len(ls)

\* an unstaged deletion and an intent-to-add record: one deleted, nothing else
C16_Witness ==
    /\ fmtpc = "formatted"
    /\ ScansStatus
    /\ StatusLines = <<Chars("## main"), Chars(" D f"), Chars(" A f")>>
    /\ tally.deleted = 1
    /\ \A c \in CounterSet \ {"deleted"} : tally[c] = 0

\* the clauses of the reference rendering: "<n> <kind>" for the non-zero ones
KindWord(c) ==
    CASE c = "modified" -> Chars(" modified")
      [] c = "added" -> Chars(" added")
      [] c = "deleted" -> Chars(" deleted")
      [] c = "renamed" -> Chars(" renamed")
      [] c = "untracked" -> Chars(" untracked")
      [] c = "ahead" -> Chars(" ahead")
      [] c = "behind" -> Chars(" behind")

RECURSIVE NonZeroClauses(_)
NonZeroClauses(kinds) ==
    IF kinds = <<>> THEN <<>>
    ELSE (IF tally[Head(kinds)] > 0
          THEN <<ToDecimal(tally[Head(kinds)]) \o KindWord(Head(kinds))>>
          ELSE <<>>) \o NonZeroClauses(Tail(kinds))

NoFileChange == \A c \in CounterSet : tally[c] = 0

\* C17: the message of a successful status is the non-zero clauses in the
\* order modified, added, deleted, renamed, untracked, ahead, behind joined by
\* ", ", after "clean, " when there is no file change; it is "clean" exactly
\* when all seven numbers are zero, and starts with "clean, " exactly when
\* there is no file change and ahead or behind is not zero; no clause of a zero
\* counter appears.
C17_StatusRendering ==
    (ScansStatus /\ fmtpc = "formatted" /\ ~fr.panicked) =>
        /\ fr.message =
              IF NonZeroClauses(Counters \o <<"ahead", "behind">>) = <<>> THEN Chars("clean")
              ELSE (IF NoFileChange THEN Chars("clean, ") ELSE <<>>)
                      \o JoinWith(NonZeroClauses(Counters \o <<"ahead", "behind">>),
                                  Chars(", "))
        /\ fr.message = Chars("clean") <=> (NoFileChange /\ tally.ahead = 0 /\ tally.behind = 0)
        /\ StartsWith(fr.message, Chars("clean, "))
              <=> (NoFileChange /\ (tally.ahead > 0 \/ tally.behind > 0))
        /\ \A c \in CounterSet \cup {"ahead", "behind"} :
              tally[c] = 0 => ~Contains(fr.message, KindWord(c))

\* one modified and one untracked file on a branch 2 ahead and 3 behind
C17_Witness ==
    /\ fmtpc = "formatted"
    /\ ScansStatus
    /\ StatusLines = <<Chars("## main...origin/main [ahead 2, behind 3]"), Chars(" M file.txt"), Chars("?? f.txt")>>
    /\ fr.message = <<"1">> \o Chars(" modified") \o Chars(", ") \o <<"1">> \o Chars(" untracked")
                       \o Chars(", ") \o <<"2">> \o Chars(" ahead")
                       \o Chars(", ") \o <<"3">> \o Chars(" behind")

\* C18: a successful status whose first line is the header of branch b with
\* upstream u, a ahead and m behind reports branch b, ahead a and behind m; the
\* plain header reports its branch and zero counts; the detached, "No commits
\* yet" and "Initial commit" headers report "HEAD (detached)" and the branch
\* named.
C18_HeaderParsing ==
    (ScansStatus /\ fmtpc = "formatted" /\ StatusLines # <<>>) =>
        /\ \A bu \in TrackedBranches, ab \in AheadBehind :
              StatusLines[1] = TrackingHeader(bu[1], bu[2], ab[1], ab[2]) =>
                 /\ ~fr.panicked
                 /\ fr.branch = bu[1]
                 /\ tally.ahead = ab[1]
                 /\ tally.behind = ab[2]
        /\ StatusLines[1] = Chars("## main") =>
              fr.branch = Chars("main") /\ tally.ahead = 0 /\ tally.behind = 0
        /\ StatusLines[1] = Chars("## HEAD (no branch)") => fr.branch = Chars("HEAD (detached)")
        /\ StatusLines[1] \in {Chars("## No commits yet on dev"), Chars("## Initial commit on dev")} =>
              fr.branch = Chars("dev")

\* the lines of a channel that are not blank
NonBlankLines(text) == {i \in 1 .. Len(Lines(text)) : ~IsBlank(Lines(text)[i])}

FromLines(text) ==
    {i \in NonBlankLines(text) : StartsWith(Lines(text)[i], Chars("From"))}

FetchSucceeded ==
    fmtpc = "formatted" /\ formatter \in {"fetch", "fit_fetch"} /\ output.success

UpdateLines ==
    LET ls == Lines(output.stdout)
    IN  {i \in 1 .. Len(ls) :
            \/ Contains(ls[i], Chars("->"))
            \/ Contains(ls[i], Chars("[new"))}

\* C19 as stated: the message of a successful fetch is "no new commits"
\* exactly when stdout has no non-blank line and stderr has no non-blank line
\* but a single "From ..." line.
C19_NoNewCommitsSingleFromLine ==
    FetchSucceeded =>
        (fr.message = Chars("no new commits") <=>
            /\ NonBlankLines(output.stdout) = {}
            /\ NonBlankLines(output.stderr) = FromLines(output.stderr)
            /\ Cardinality(FromLines(output.stderr)) <= 1)

\* C19, amended: the message of a successful fetch is "no new commits" exactly
\* when stdout has no non-blank line and every non-blank line of stderr starts
\* with "From", however many there are; otherwise, when no stdout line holds
\* "->" or "[new", it is "fetched".
C19_NoNewCommitsAnyFromLines ==
    FetchSucceeded =>
        /\ fr.message = Chars("no new commits") <=>
              /\ NonBlankLines(output.stdout) = {}
              /\ NonBlankLines(output.stderr) = FromLines(output.stderr)
        /\ (fr.message # Chars("no new commits") /\ UpdateLines = {}) => fr.message = Chars("fetched")

\* two "From" lines and nothing else: "no new commits"
C19_Witness ==
    /\ FetchSucceeded
    /\ output.stdout = <<>>
    /\ Lines(output.stderr) = <<Chars("From github.com:user/repo"), Chars("From github.com:user/repo")>>
    /\ fr.message = Chars("no new commits")

TagLines ==
    LET ls == Lines(output.stdout)
    IN  {i \in UpdateLines : Contains(ls[i], Chars("[new tag]"))}

\* "<n> <singular>" for one, "<n> <plural>" otherwise, nothing for zero
Counted(n, singular, plural) ==
    IF n = 0 THEN <<>>
    ELSE <<ToDecimal(n) \o <<" ">> \o (IF n = 1 THEN singular ELSE plural)>>

\* C20: a successful fetch with update lines in stdout reports the number of
\* update lines without "[new tag]" as branches and the number with it as tags,
\* a zero count omitted, singular for one; and on every successful output the
\* two fetch classifiers give the same result.
C20_FetchCounts ==
    FetchSucceeded =>
        /\ LET updates == UpdateLines
               tags == TagLines
           IN  updates # {} =>
                 fr.message =
                    JoinWith(Counted(Cardinality(updates \ tags),
                                     Chars("branch"),
                                     Chars("branches"))
                             \o Counted(Cardinality(tags),
                                        Chars("tag"), Chars("tags")),
                             Chars(", "))
                        \o Chars(" updated")
        /\ fr = FetchFormat(output)
        /\ fr = FitFetchFormat(output)

\* one branch update and one new tag
C20_Witness ==
    /\ FetchSucceeded
    /\ Lines(output.stdout) = <<Chars("   abc..def  main -> origin/main"), Chars(" * [new tag] v1.0 -> v1.0")>>
    /\ Cardinality(TagLines) = 1
    /\ Cardinality(UpdateLines) = 2

PullSucceeded == fmtpc = "formatted" /\ formatter = "pull" /\ output.success

\* the lines of ls that hold the phrase p
LinesWith(ls, p) == {i \in 1 .. Len(ls) : Contains(ls[i], Chars(p))}

\* whether position i is the least of the set idx
IsFirstOf(i, idx) == i \in idx /\ \A j \in idx : i <= j

PassthroughSucceeded ==
    fmtpc = "formatted" /\ formatter = "passthrough" /\ output.success

\* C22: a successful passthrough command gives an empty branch, and as message
\* the first non-blank line of stdout followed by stderr, trimmed, or "ok" when
\* neither channel has a non-blank line.
C22_PassthroughMessage ==
    PassthroughSucceeded =>
        LET all == Lines(output.stdout) \o Lines(output.stderr)
            ink == NonBlankIdx(all)
        IN  /\ ~fr.panicked
            /\ fr.branch = <<>>
            /\ ink = {} => fr.message = Chars("ok")
            /\ \A i \in ink : IsFirstOf(i, ink) => fr.message = Trim(all[i])

\* stdout holds one blank line, stderr a non-blank one: the stderr line is the
\* message although stdout is not empty
C22_Witness ==
    /\ PassthroughSucceeded
    /\ output.stdout = Chars(" \n")
    /\ NonBlankIdx(Lines(output.stderr)) # {}
    /\ fr.message = Trim(Lines(output.stderr)[1])
    /\ fr.message # <<>>

\* C28: for every process that was launched and exited with status zero, and
\* whatever it wrote, the classifier returns (it does not fail) and the message
\* of its result is not empty.
C28_ClassificationIsTotal ==
    (fmtpc = "formatted" /\ output.success) =>
        /\ ~fr.panicked
        /\ fr.message # <<>>

\* ======================================================================
\* Properties of the columns
\* ======================================================================
\* C24: format_column returns a text of exactly `width` characters, whatever
\* the value and the width: a value longer than the width is cut to its first
\* width - 3 characters followed by "..." (to its first `width` characters when
\* width <= 3), a shorter one is padded on the right with blanks, one of
\* exactly `width` characters is returned as it is.
C24_ColumnHasWidth ==
    colpc = "formatted" =>
        /\ Len(column) = width
        /\ Len(value) > width =>
              column = IF width <= 3
                       THEN SubSeq(value, 1, width)
                       ELSE SubSeq(value, 1, width - 3) \o Chars("...")
        /\ Len(value) < width =>
              /\ SubSeq(column, 1, Len(value)) = value
              /\ \A k \in (Len(value) + 1) .. width : column[k] = " "
        /\ Len(value) = width => column = value

\* the length of the longest name, in bytes; 0 without names
LongestName ==
    IF names = <<>> THEN 0
    ELSE CHOOSE n \in {ByteLen(names[k]) : k \in 1 .. Len(names)} :
            \A k \in 1 .. Len(names) : ByteLen(names[k]) <= n

\* C25: compute_name_width returns the largest display-name length, raised to
\* 4 when it is below (also without any target) and lowered to 48 when it is
\* above.
C25_NameWidthClamped ==
    colpc = "width" =>
        /\ name_width >= 4
        /\ name_width <= 48
        /\ LongestName < 4 => name_width = 4
        /\ LongestName > 48 => name_width = 48
        /\ LongestName \in 4 .. 48 => name_width = LongestName

\* a name of one character and one of sixty: the width is the cap
C25_Witness ==
    /\ colpc = "width"
    /\ names = <<Repeat("a", 1), Repeat("y", 60)>>
    /\ LongestName = 60
    /\ name_width = 48

\* ======================================================================
\* Properties of the program
\* ======================================================================
\* C29: fit meta with no argument and fit meta help both end with exit status
\* 0, nothing on stderr and the same output, the help; fit meta with any other
\* first argument ends with a non-zero exit status, no help, and the error
\* "Unknown meta subcommand" on stderr.
C29_MetaSubcommand ==
    (program = "fit" /\ cli_command = "Meta" /\ mainpc = "exited"
        /\ exit_code # ExitUsage) =>
        IF meta_args = <<>> \/ meta_args[1] = "help"
        THEN /\ exit_code = 0
             /\ mainerr = <<>>
             /\ \E git_version \in GitVersions : mainout = PrintHelp("fit", git_version)
        ELSE /\ exit_code # 0
             /\ mainout = <<>>
             /\ mainerr # <<>>
             /\ SubSeq(mainerr[1], 1, 23) = "Unknown meta subcommand"

\* fit meta unknown has ended with status 1 and the error naming the argument
C29_Witness ==
    /\ program = "fit"
    /\ mainpc = "exited"
    /\ meta_args = <<"unknown">>
    /\ exit_code = 1
    /\ mainerr = <<"Unknown meta subcommand: unknown", "Available: help">>

\* C14: when discovery has found no repository the program has ended with an
\* exit status that is neither success nor the status of an ordinary error or
\* a usage error, and the engine has not run: no worker, no line.
C14_NoTargetsIsAFailure ==
    found = 0 =>
        /\ mainpc = "exited"
        /\ exit_code \notin {ExitOk, ExitErr, ExitUsage}
        /\ phase = "idle"
        /\ spawned = 0
        /\ out = <<>>

====
